---- MODULE Spec2Model ----
(***************************************************************************)
(* Market-analysis dashboard: the seeded record generator with its         *)
(* process-wide cache (utils/dataGenerator), the page's load effect, the   *)
(* standard-tab filter and the per-year / per-segment aggregators          *)
(* (pages/MarketAnalysis).                                                 *)
(*                                                                         *)
(* Numbers: the source computes in IEEE doubles.  Here money is kept in    *)
(* fixed point (prices in cents, market value in whole dollars), every     *)
(* multiplier of the lookup tables is a percentage, and a product is       *)
(* floored after each factor.  getDataValue's "/ 1000" is exact in this    *)
(* representation: the chart values are read in thousandths.               *)
(*                                                                         *)
(* Strings: Array.prototype.sort() without a comparator orders by UTF-16   *)
(* code units; SortOrder lists every category string of the program in     *)
(* that order.                                                             *)
(***************************************************************************)
EXTENDS Integers, Sequences, FiniteSets, TLC

VARIABLES
    dataCache,   \* dataGenerator: let dataCache (Null or a record sequence)
    seed,        \* the generator's closure variable `seed` of the latest run
    genRuns,     \* history: number of generateComprehensiveData invocations
    log,         \* history: the getData / clearDataCache calls, in order
    pagePc,      \* MarketAnalysis: position of the mount effect and its timers
    data,        \* MarketAnalysis: useState data
    loading,     \* MarketAnalysis: useState loading
    filters,     \* MarketAnalysis: useState filters (standard tab)
    changes,     \* history: number of filter changes made after the load
    calcInput,   \* the arguments one derivation (a pure function) is applied to
    calcResult,  \* what that derivation returned, once it has been applied
    resolver     \* the bubble layout resolver's loop: its locals and position

vars == <<dataCache, seed, genRuns, log, pagePc, data, loading, filters, changes,
          calcInput, calcResult, resolver>>

\* The derivations and the resolver, which the page's load and filter panel
\* leave alone
-----------------------------------------------------------------------------
(* Bounds of the model *)

\* years generated: 2021 .. 2021 + NumYears - 1 (the source generates 15)
NumYears == 2
\* regions generated: the first NumRegions of the source's 4
NumRegions == 2
\* getData / clearDataCache calls recorded in one behaviour
MaxCalls == 4
\* filter changes made after the page has loaded
MaxChanges == 1

-----------------------------------------------------------------------------
(* Category strings *)

SortOrder == <<
    "Ayurvedic Clinics",
    "Baby Boomers (Ages 58+)",
    "Bars (soap, shampoo bars)",
    "Body Care",
    "Body Care - Body Oils (Ayurvedic Abhyangsnan, Massage Oils)",
    "Body Care - Body Wash / Scrubs",
    "Body Care - Lotions & Butters",
    "Brand Website",
    "Capsules / Ampoules",
    "Corporate & Office Professionals",
    "Cosmetic & Beauty Enhancers",
    "Cosmetic & Beauty Enhancers - Makeup (base, eyes, lips)",
    "Cosmetic & Beauty Enhancers - Nail & Hand Care",
    "Cosmetology Kits",
    "Cosmetology Kits - Facial Kits (Anti-Aging, Hydration, Acne)",
    "Cosmetology Kits - Hair Treatment Kits",
    "Cosmetology Kits - Seasonal Wellness Kits (Festive, Bridal, Ritual-based)",
    "Cosmetology Kits - Travel + Daily Routine Kits",
    "Creams & Lotions",
    "D2C & Digital Platforms",
    "D2C & Digital Platforms - Brand D2C Websites & Apps",
    "D2C & Digital Platforms - E-commerce Marketplaces (Amazon, Flipkart, etc.)",
    "D2C & Digital Platforms - Quick Commerce Platforms",
    "D2C & Digital Platforms - Social / Influencer-led Commerce",
    "East India",
    "Ecommerce Platforms",
    "Gels & Mousse",
    "Gen X (Ages 42-57)",
    "Gen Z (Ages 10-25)",
    "Hair Care",
    "Hair Care - Conditioners & Hair Masks",
    "Hair Care - Hair Growth & Scalp Treatments",
    "Hair Care - Oils & Serums",
    "Hair Care - Shampoos",
    "Health, Wellness & Beauty Professionals",
    "Home & Family-Centric Consumers",
    "Luxury",
    "Mass",
    "Millennials (Ages 26-41)",
    "North India",
    "Offline Retail",
    "Offline Retail - Beauty & Cosmetic Specialty Stores",
    "Offline Retail - Neighbourhood / Convenience Stores",
    "Offline Retail - Pharmacies / Drugstores",
    "Offline Retail - Professional & Institutional",
    "Offline Retail - Professional & Institutional - Aesthetic / Dermatology Clinics",
    "Offline Retail - Professional & Institutional - Salons & Spa Chains",
    "Offline Retail - Supermarkets / Hypermarkets",
    "Oils (Ayurvedic, Tonic, Carrier & Herbal blend)",
    "Others",
    "Others (Sprays & Mists, etc.)",
    "Others - Direct Selling, MLM Networks, etc.",
    "Pharmacies",
    "Powders (face packs, exfoliants, ubtan)",
    "Premium",
    "Retail Stores",
    "Serums (water/oil-based, actives)",
    "Skin Care",
    "Skin Care - Face Oils (Abhyanga / Ayurvedic oils)",
    "Skin Care - Face Wash & Cleansers",
    "Skin Care - Moisturizers & Creams",
    "Skin Care - Serums",
    "Skin Care - Sunscreen",
    "Skin Care - Toners / Mists",
    "Social Commerce",
    "South India",
    "Specialty Beauty Stores",
    "Students",
    "West India"
>>

\* [...set].sort() on strings: the members of S in code-unit order
SortStrings(S) == SelectSeq(SortOrder, LAMBDA s : s \in S)

\* [...set].sort() on 4-digit years: the string order is the numeric order
RECURSIVE SortYears(_)
SortYears(S) ==
    IF S = {} THEN <<>>
    ELSE LET m == CHOOSE y \in S : \A z \in S : y <= z
         IN  <<m>> \o SortYears(S \ {m})

Range(s) == {s[i] : i \in 1..Len(s)}

\* The member of a one-element set (used to evaluate a value once and name it)
TheOnly(S) == CHOOSE x \in S : TRUE

Prefix(s, n) == SubSeq(s, 1, IF n < Len(s) THEN n ELSE Len(s))

-----------------------------------------------------------------------------
(* Hierarchy catalog: getProductTypeHierarchy *)

getProductTypeHierarchy == <<
    [mainCategory |-> "Skin Care",
     subCategories |-> <<"Serums", "Moisturizers & Creams",
                         "Face Oils (Abhyanga / Ayurvedic oils)",
                         "Face Wash & Cleansers", "Toners / Mists", "Sunscreen">>],
    [mainCategory |-> "Hair Care",
     subCategories |-> <<"Oils & Serums", "Shampoos", "Conditioners & Hair Masks",
                         "Hair Growth & Scalp Treatments">>],
    [mainCategory |-> "Body Care",
     subCategories |-> <<"Body Oils (Ayurvedic Abhyangsnan, Massage Oils)",
                         "Lotions & Butters", "Body Wash / Scrubs">>],
    [mainCategory |-> "Cosmetic & Beauty Enhancers",
     subCategories |-> <<"Makeup (base, eyes, lips)", "Nail & Hand Care">>],
    [mainCategory |-> "Cosmetology Kits",
     subCategories |-> <<"Facial Kits (Anti-Aging, Hydration, Acne)",
                         "Hair Treatment Kits",
                         "Seasonal Wellness Kits (Festive, Bridal, Ritual-based)",
                         "Travel + Daily Routine Kits">>]
>>

\* generateProductTypeChartData: the parentToChildren map, `${parent} - ${sub}`
ParentToChildren ==
    [p \in {getProductTypeHierarchy[i].mainCategory : i \in 1..Len(getProductTypeHierarchy)} |->
        LET item == CHOOSE it \in Range(getProductTypeHierarchy) : it.mainCategory = p
        IN  [j \in 1..Len(item.subCategories) |-> p \o " - " \o item.subCategories[j]]]

Parents == DOMAIN ParentToChildren

ChildrenOf(p) == Range(ParentToChildren[p])

-----------------------------------------------------------------------------
(* generateComprehensiveData: the enumerated dimensions *)

years == [i \in 1..NumYears |-> 2021 + (i - 1)]

regions == Prefix(<<"North India", "South India", "East India", "West India">>, NumRegions)

productTypes == <<
    "Skin Care",
    "Skin Care - Serums",
    "Skin Care - Moisturizers & Creams",
    "Skin Care - Face Oils (Abhyanga / Ayurvedic oils)",
    "Skin Care - Face Wash & Cleansers",
    "Skin Care - Toners / Mists",
    "Skin Care - Sunscreen",
    "Hair Care",
    "Hair Care - Oils & Serums",
    "Hair Care - Shampoos",
    "Hair Care - Conditioners & Hair Masks",
    "Hair Care - Hair Growth & Scalp Treatments",
    "Body Care",
    "Body Care - Body Oils (Ayurvedic Abhyangsnan, Massage Oils)",
    "Body Care - Lotions & Butters",
    "Body Care - Body Wash / Scrubs",
    "Cosmetic & Beauty Enhancers",
    "Cosmetic & Beauty Enhancers - Makeup (base, eyes, lips)",
    "Cosmetic & Beauty Enhancers - Nail & Hand Care",
    "Cosmetology Kits",
    "Cosmetology Kits - Facial Kits (Anti-Aging, Hydration, Acne)",
    "Cosmetology Kits - Hair Treatment Kits",
    "Cosmetology Kits - Seasonal Wellness Kits (Festive, Bridal, Ritual-based)",
    "Cosmetology Kits - Travel + Daily Routine Kits"
>>

\* Product forms, price ranges and age groups: the model enumerates the
\* leading entries of the source's lists (8, 3 and 4 entries there).
bladeMaterials == <<"Oils (Ayurvedic, Tonic, Carrier & Herbal blend)">>

handleLengths == <<"Mass", "Premium">>

applications == <<"Gen Z (Ages 10-25)">>

professions == <<"Students", "Corporate & Office Professionals",
                 "Home & Family-Centric Consumers",
                 "Health, Wellness & Beauty Professionals">>

salesChannels == <<
    "D2C & Digital Platforms",
    "D2C & Digital Platforms - E-commerce Marketplaces (Amazon, Flipkart, etc.)",
    "D2C & Digital Platforms - Brand D2C Websites & Apps",
    "D2C & Digital Platforms - Quick Commerce Platforms",
    "D2C & Digital Platforms - Social / Influencer-led Commerce",
    "Offline Retail",
    "Offline Retail - Supermarkets / Hypermarkets",
    "Offline Retail - Beauty & Cosmetic Specialty Stores",
    "Offline Retail - Pharmacies / Drugstores",
    "Offline Retail - Neighbourhood / Convenience Stores",
    "Offline Retail - Professional & Institutional - Salons & Spa Chains",
    "Offline Retail - Professional & Institutional - Aesthetic / Dermatology Clinics",
    "Others",
    "Others - Direct Selling, MLM Networks, etc."
>>

\* salesChannel.includes('Offline'): entries 6..12 of salesChannels
IncludesOffline(salesChannel) ==
    \E i \in 6..12 : salesChannels[i] = salesChannel

offlineChannels == <<"Retail Stores", "Pharmacies", "Specialty Beauty Stores", "Ayurvedic Clinics">>

onlineChannels == <<"Ecommerce Platforms", "Brand Website", "Social Commerce">>

\* brands.length; brandPremiumMap[brands[idx]] = 0.8 + (idx % 3) * 0.4
NumBrands == 10

brandPremium(idx) == 80 + (idx % 3) * 40

\* countryMap[region] is empty for every region: the region is its own country
countriesToProcess(region) == <<region>>

\* productType.split(' - ')[0]
MainCategoryOf(productType) ==
    IF productType \in Parents THEN productType
    ELSE CHOOSE p \in Parents : productType \in ChildrenOf(p)

\* productTypeMultipliers, in percent
productTypeMultiplier(productType) ==
    LET m == MainCategoryOf(productType)
    IN  CASE m = "Skin Care" -> [price |-> 100, volume |-> 120]
          [] m = "Hair Care" -> [price |-> 90, volume |-> 130]
          [] m = "Body Care" -> [price |-> 85, volume |-> 110]
          [] m = "Cosmetic & Beauty Enhancers" -> [price |-> 130, volume |-> 90]
          [] m = "Cosmetology Kits" -> [price |-> 150, volume |-> 80]

\* bladeMaterialMultipliers, in percent
bladeMaterialMultiplier(bladeMaterial) ==
    CASE bladeMaterial = "Oils (Ayurvedic, Tonic, Carrier & Herbal blend)" -> [price |-> 120, volume |-> 130]
      [] bladeMaterial = "Creams & Lotions" -> [price |-> 100, volume |-> 120]
      [] bladeMaterial = "Serums (water/oil-based, actives)" -> [price |-> 140, volume |-> 90]
      [] bladeMaterial = "Gels & Mousse" -> [price |-> 110, volume |-> 100]
      [] bladeMaterial = "Powders (face packs, exfoliants, ubtan)" -> [price |-> 90, volume |-> 110]
      [] bladeMaterial = "Capsules / Ampoules" -> [price |-> 160, volume |-> 70]
      [] bladeMaterial = "Bars (soap, shampoo bars)" -> [price |-> 70, volume |-> 140]
      [] bladeMaterial = "Others (Sprays & Mists, etc.)" -> [price |-> 100, volume |-> 100]

\* handleMult, in percent
handleMultiplier(handleLength) ==
    IF handleLength = "Luxury" THEN 150 ELSE IF handleLength = "Premium" THEN 120 ELSE 80

\* applicationMultipliers[application].volume, in percent
applicationVolume(application) ==
    CASE application = "Gen Z (Ages 10-25)" -> 140
      [] application = "Millennials (Ages 26-41)" -> 150
      [] application = "Gen X (Ages 42-57)" -> 120
      [] application = "Baby Boomers (Ages 58+)" -> 90

\* distributionChannelMultipliers[...].volume, in percent
channelVolume(salesChannel) == IF IncludesOffline(salesChannel) THEN 130 ELSE 120

\* regionMultipliers[region].volume, in percent
regionVolume(region) ==
    CASE region = "North India" -> 150
      [] region = "South India" -> 130
      [] region = "East India" -> 120
      [] region = "West India" -> 140

-----------------------------------------------------------------------------
(* generateComprehensiveData: the seeded random sequence and the records *)

\* seededRandom: seed = (seed * 9301 + 49297) % 233280.  9301 = 93 * 100 + 1;
\* the product is reduced in two steps to stay within 32-bit integers.
seededRandom(s) == (((s * 93) % 233280) * 100 + s + 49297) % 233280

\* Math.floor(seededRandom() * n), for the seed s the call left
DrawIndex(s, n) == (s * n) \div 233280

\* x * pct%, floored
Scale(x, pct) == (x * pct) \div 100

\* let seed = 42, at the start of every invocation; prev is the value the
\* previous invocation's closure ended with
SeedLeaks(prev) == prev
InitialSeed(prev) == 42

\* The seeds the next n calls of seededRandom leave, in call order
RECURSIVE SeedsFrom(_, _)
SeedsFrom(s, n) ==
    IF n = 0 THEN <<>>
    ELSE TheOnly({<<x>> \o SeedsFrom(x, n - 1) : x \in {seededRandom(s)}})

\* The innermost loop body: one record drawn for one combination.  d holds
\* the seeds of its twelve draws: profession, salesChannel, distributionChannel,
\* brand, company, basePrice, baseVolume, marketValueUsd, baseMarketShare,
\* baseCAGR, yoyGrowth, qty.
RecordOf(recordId, c, d) ==
    LET year          == c.year
        region        == c.region
        country       == c.country
        productType   == c.productType
        bladeMaterial == c.bladeMaterial
        handleLength  == c.handleLength
        application   == c.application
        profession   == professions[DrawIndex(d[1], Len(professions)) + 1]
        salesChannel == salesChannels[DrawIndex(d[2], Len(salesChannels)) + 1]
        distributionChannel ==
            IF IncludesOffline(salesChannel)
            THEN offlineChannels[DrawIndex(d[3], Len(offlineChannels)) + 1]
            ELSE onlineChannels[DrawIndex(d[3], Len(onlineChannels)) + 1]
        brandMult   == brandPremium(DrawIndex(d[4], NumBrands))
        productMult == productTypeMultiplier(productType)
        bladeMult   == bladeMaterialMultiplier(bladeMaterial)
        \* basePrice = 10 + r * 90, in cents
        basePrice == 1000 + (d[6] * 9000) \div 233280
        price ==
            Scale(Scale(Scale(Scale(Scale(basePrice, productMult.price),
                                    bladeMult.price), brandMult),
                        handleMultiplier(handleLength)),
                  100 + (year - 2021) * 2)
        \* baseVolume = 100 + r * 900, in hundredths of a unit
        baseVolume == 10000 + (d[7] * 9000) \div 23328
        volumeUnits ==
            Scale(Scale(Scale(Scale(Scale(Scale(baseVolume, regionVolume(region)),
                                          productMult.volume), bladeMult.volume),
                              applicationVolume(application)),
                        channelVolume(salesChannel)),
                  100 + (year - 2021) * 5) \div 100
        \* revenue = price * volumeUnits, in cents
        revenue == price * volumeUnits
        \* marketValueUsd = revenue * (0.9 + r * 0.2), in whole dollars
        marketValueUsd == ((revenue \div 1000) * (900 + (d[8] * 200) \div 233280)) \div 100
    IN  [rec |-> [recordId |-> recordId,
                  year |-> year,
                  region |-> region,
                  country |-> country,
                  productType |-> productType,
                  bladeMaterial |-> bladeMaterial,
                  handleLength |-> handleLength,
                  application |-> application,
                  endUser |-> profession,
                  distributionChannelType |-> salesChannel,
                  distributionChannel |-> distributionChannel,
                  volumeUnits |-> volumeUnits,
                  marketValueUsd |-> marketValueUsd],
         seed |-> d[12]]

MakeRecord(recordId, c, s0) ==
    TheOnly({RecordOf(recordId, c, d) : d \in {SeedsFrom(s0, 12)}})

\* The nested for-loops, outermost first: year, region, country, productType,
\* bladeMaterial, handleLength, application.  Combination k (from 0) in loop order.
NumCombinations ==
    Len(years) * Len(regions) * Len(productTypes) * Len(bladeMaterials)
        * Len(handleLengths) * Len(applications)

Combination(k) ==
    LET nA == Len(applications)
        nH == Len(handleLengths)
        nB == Len(bladeMaterials)
        nP == Len(productTypes)
        nR == Len(regions)
        region == regions[((k \div (nA * nH * nB * nP)) % nR) + 1]
    IN  [year          |-> years[(k \div (nA * nH * nB * nP * nR)) + 1],
         region        |-> region,
         country       |-> countriesToProcess(region)[1],
         productType   |-> productTypes[((k \div (nA * nH * nB)) % nP) + 1],
         bladeMaterial |-> bladeMaterials[((k \div (nA * nH)) % nB) + 1],
         handleLength  |-> handleLengths[((k \div nA) % nH) + 1],
         application   |-> applications[(k % nA) + 1]]

\* The loop body run for combinations lo .. hi - 1, starting with seed s:
\* the records pushed, in order, and the seed left.  (The range is halved
\* only to keep the evaluation shallow; the seed threads left to right.)
RECURSIVE GenerateRange(_, _, _)
GenerateRange(lo, hi, s) ==
    IF hi = lo THEN [data |-> <<>>, seed |-> s]
    ELSE IF hi = lo + 1
    THEN \* let recordId = 100000; recordId++ after every push
         TheOnly({[data |-> <<made.rec>>, seed |-> made.seed] :
                     made \in {MakeRecord(100000 + lo, Combination(lo), s)}})
    ELSE LET mid == (lo + hi) \div 2
         IN  TheOnly(UNION {
                 {[data |-> left.data \o right.data, seed |-> right.seed] :
                     right \in {GenerateRange(mid, hi, left.seed)}} :
                 left \in {GenerateRange(lo, mid, s)}})

\* generateComprehensiveData(): the records, and the closure's final seed
GenerateHalf(prevSeed) ==
    GenerateRange(0, NumCombinations \div 2, InitialSeed(prevSeed))
generateComprehensiveData(prevSeed) ==
    GenerateRange(0, NumCombinations, InitialSeed(prevSeed))

-----------------------------------------------------------------------------
(* dataGenerator: the module-level cache *)

\* let dataCache: ShovelMarketData[] | null
NullCache == [isNull |-> TRUE, rows |-> <<>>]

Filled(rows) == [isNull |-> FALSE, rows |-> rows]

\* !dataCache: only null is falsy, an empty array is not
AlwaysMiss(cache) == TRUE
CacheMiss(cache) == cache.isNull

\* catch (error) { dataCache = [] }: the error is swallowed
RethrowGenerationError == [cache |-> NullCache, ret |-> <<>>, threw |-> TRUE]
OnGenerationError == [cache |-> Filled(<<>>), ret |-> <<>>, threw |-> FALSE]

\* getData(): what one call does to the cache, and what it returns.
\* genThrows: whether generateComprehensiveData throws in this call.
getData(cache, prevSeed, genThrows) ==
    IF CacheMiss(cache)
    THEN IF genThrows
         THEN [cache |-> OnGenerationError.cache, ret |-> OnGenerationError.ret,
               threw |-> OnGenerationError.threw, ran |-> TRUE,
               seed |-> InitialSeed(prevSeed)]
         ELSE TheOnly({[cache |-> Filled(g.data), ret |-> g.data, threw |-> FALSE,
                        ran |-> TRUE, seed |-> g.seed] :
                           g \in {generateComprehensiveData(prevSeed)}})
    ELSE [cache |-> cache, ret |-> cache.rows, threw |-> FALSE, ran |-> FALSE,
          seed |-> prevSeed]

\* clearDataCache(): dataCache = null
ClearKeepsCache(cache) == cache
clearDataCache(cache) == NullCache

\* One entry of the call history
LogGet(caller, r, genThrows) ==
    [op |-> "getData", caller |-> caller, ran |-> r.ran, genThrew |-> r.ran /\ genThrows,
     threw |-> r.threw, ret |-> r.ret, after |-> r.cache]

LogClear(caller, after) ==
    [op |-> "clear", caller |-> caller, ran |-> FALSE, genThrew |-> FALSE,
     threw |-> FALSE, ret |-> <<>>, after |-> after]

-----------------------------------------------------------------------------
(* MarketAnalysis: filter state and the defaults set after the load *)

FilterFields == {"year", "country", "productType", "bladeMaterial", "handleLength",
                 "application", "endUser", "distributionChannelType",
                 "distributionChannel"}

\* useState filters: every selection empty, 'By Value'.  A selection array is
\* kept as the set of its members: the page only reads .length and .includes
\* and sorts a selection before it uses its order.
InitialFilters ==
    [year |-> {}, country |-> {}, productType |-> {}, bladeMaterial |-> {},
     handleLength |-> {}, application |-> {}, endUser |-> {},
     distributionChannelType |-> {}, distributionChannel |-> {},
     marketEvaluation |-> "By Value"]

\* [...new Set(generatedData.map(d => d[field]))].filter(Boolean).sort()
Available(rows, field) == SortStrings({rows[i][field] : i \in 1..Len(rows)} \ {""})

\* array.slice(0, 2)
FirstTwo(s) == Range(Prefix(s, 2))

\* array.slice(-2)
LastTwo(s) == {s[i] : i \in {j \in 1..Len(s) : j > Len(s) - 2}}

\* The inner setTimeout callback: setFilters({...}) with the defaults
DefaultFilters(generatedData) ==
    LET availableYears == SortYears({generatedData[i].year : i \in 1..Len(generatedData)})
        defaultYears ==
            IF 2024 \in Range(availableYears) /\ 2025 \in Range(availableYears)
            THEN {2024, 2025}
            ELSE IF Len(availableYears) >= 2 THEN LastTwo(availableYears)
                 ELSE Range(availableYears)
    IN  [year |-> defaultYears,
         country |-> FirstTwo(Available(generatedData, "region")),
         productType |-> FirstTwo(SortStrings({generatedData[i].productType :
                                                  i \in 1..Len(generatedData)})),
         bladeMaterial |-> FirstTwo(Available(generatedData, "bladeMaterial")),
         handleLength |-> FirstTwo(Available(generatedData, "handleLength")),
         application |-> FirstTwo(Available(generatedData, "application")),
         endUser |-> FirstTwo(Available(generatedData, "endUser")),
         distributionChannelType |-> FirstTwo(Available(generatedData, "distributionChannelType")),
         distributionChannel |-> {},
         marketEvaluation |-> "By Value"]

-----------------------------------------------------------------------------
(* Actions: the cache's callers and the page's mount effect *)

\* Any caller: getData()
CallGetData(genThrows) ==
    /\ Len(log) < MaxCalls
    /\ \E r \in {getData(dataCache, seed, genThrows)} :
           /\ dataCache' = r.cache
           /\ seed' = r.seed
           /\ genRuns' = genRuns + (IF r.ran THEN 1 ELSE 0)
           /\ log' = Append(log, LogGet("other", r, genThrows))
    /\ UNCHANGED <<pagePc, data, loading, filters, changes, calcInput, calcResult, resolver>>

\* Any caller: clearDataCache()
CallClearDataCache ==
    /\ Len(log) < MaxCalls
    /\ dataCache' = clearDataCache(dataCache)
    /\ log' = Append(log, LogClear("other", dataCache'))
    /\ UNCHANGED <<seed, genRuns, pagePc, data, loading, filters, changes, calcInput, calcResult, resolver>>

\* useEffect(() => { clearDataCache(); setLoading(true); setTimeout(..., 500) }, [])
PageMount ==
    /\ pagePc = "unmounted"
    /\ Len(log) < MaxCalls
    /\ dataCache' = clearDataCache(dataCache)
    /\ log' = Append(log, LogClear("page", dataCache'))
    /\ loading' = TRUE
    /\ pagePc' = "timer500"
    /\ UNCHANGED <<seed, genRuns, data, filters, changes, calcInput, calcResult, resolver>>

\* The 500 ms callback: try { getData(); setData; setLoading(false);
\* setTimeout(defaults, 0) } catch { setData([]); setLoading(false) }
PageLoadTimer(genThrows) ==
    /\ pagePc = "timer500"
    /\ Len(log) < MaxCalls
    /\ \E r \in {getData(dataCache, seed, genThrows)} :
           /\ dataCache' = r.cache
           /\ seed' = r.seed
           /\ genRuns' = genRuns + (IF r.ran THEN 1 ELSE 0)
           /\ log' = Append(log, LogGet("page", r, genThrows))
           /\ data' = IF r.threw THEN <<>> ELSE r.ret
           /\ loading' = FALSE
           /\ pagePc' = IF r.threw THEN "ready" ELSE "timer0"
    /\ UNCHANGED <<filters, changes, calcInput, calcResult, resolver>>

\* The 0 ms callback: the default filters, computed from generatedData
PageDefaultsTimer ==
    /\ pagePc = "timer0"
    /\ filters' = DefaultFilters(data)
    /\ pagePc' = "ready"
    /\ UNCHANGED <<dataCache, seed, genRuns, log, data, loading, changes, calcInput, calcResult, resolver>>

\* No derivation has been called
NoCall == [fn |-> "none"]

\* The state after construction: nothing cached, the page not yet mounted
Init ==
    /\ dataCache = NullCache
    /\ seed = 42
    /\ genRuns = 0
    /\ log = <<>>
    /\ pagePc = "unmounted"
    /\ data = <<>>
    /\ loading = TRUE
    /\ filters = InitialFilters
    /\ changes = 0
    /\ calcInput = NoCall
    /\ calcResult = NoCall
    /\ resolver = NoCall

Next ==
    \/ CallGetData(FALSE)
    \/ CallClearDataCache
    \/ PageMount
    \/ PageLoadTimer(FALSE)
    \/ PageDefaultsTimer

\* The program as it is: generation reads local constants only and never throws
Spec == Init /\ [][Next]_vars

\* The same program when generateComprehensiveData may throw
NextThrow ==
    \/ Next
    \/ CallGetData(TRUE)
    \/ PageLoadTimer(TRUE)

SpecThrow == Init /\ [][NextThrow]_vars

-----------------------------------------------------------------------------
(* The cache's contract, read off the call history *)

IsGet(i) == log[i].op = "getData"

IsClear(i) == log[i].op = "clear"

\* No clearDataCache call strictly between calls i and j
NoClearBetween(i, j) == \A k \in (i + 1)..(j - 1) : ~IsClear(k)

\* Call i is the first getData of a cache lifetime: the cache was never filled
\* before it, or it was cleared since the last getData
FirstGetOfLifetime(i) ==
    \A j \in 1..(i - 1) : IsGet(j) => ~NoClearBetween(j, i)

\* C1: the generator runs exactly once per cache lifetime: a getData call runs
\* it if and only if the cache is empty (never filled, or cleared since the
\* last fill), and all getData calls between two clears return the same
\* sequence.
C1_GeneratedOncePerLifetime ==
    /\ \A i \in 1..Len(log) : IsGet(i) => (log[i].ran <=> FirstGetOfLifetime(i))
    /\ \A i \in 1..Len(log), j \in 1..Len(log) :
           (i < j /\ IsGet(i) /\ IsGet(j) /\ NoClearBetween(i, j))
               => log[i].ret = log[j].ret
    /\ genRuns = Cardinality({i \in 1..Len(log) : IsGet(i) /\ FirstGetOfLifetime(i)})

\* A filled cache read twice, cleared, and read again: two lifetimes
C1_Witness ==
    /\ genRuns = 2
    /\ \E i \in 1..Len(log), j \in 1..Len(log), k \in 1..Len(log) :
           /\ i < j /\ j < k
           /\ IsGet(i) /\ log[i].ran /\ Len(log[i].ret) > 0
           /\ IsGet(j) /\ ~log[j].ran /\ NoClearBetween(i, j)
           /\ IsGet(k) /\ log[k].ran /\ ~NoClearBetween(j, k)

\* C2: any two getData calls that regenerate (each the first read after a
\* clear, or the first read ever) return record sequences that are equal
\* element by element: every generation restarts from the same seed.
C2_RegenerationDeterministic ==
    \A i \in 1..Len(log), j \in 1..Len(log) :
        (IsGet(i) /\ IsGet(j) /\ FirstGetOfLifetime(i) /\ FirstGetOfLifetime(j))
            => /\ Len(log[i].ret) = Len(log[j].ret)
               /\ \A n \in 1..Len(log[i].ret) : log[i].ret[n] = log[j].ret[n]

\* Two reads, each directly after a clear, both returning the full record set
C2_Witness ==
    \E i \in 2..Len(log), j \in 2..Len(log) :
        /\ i < j
        /\ IsClear(i - 1) /\ IsGet(i)
        /\ IsClear(j - 1) /\ IsGet(j)
        /\ Len(log[i].ret) = NumCombinations
        /\ Len(log[j].ret) = NumCombinations
        /\ NumCombinations > 0

\* C3: clearDataCache always leaves the cache empty, whatever it held (also
\* when it was empty already, so a second clear changes nothing), never
\* fails, and the getData call after it regenerates.
C3_ClearIdempotent ==
    /\ \A i \in 1..Len(log) : IsClear(i) => (log[i].after = NullCache /\ ~log[i].threw)
    /\ \A i \in 1..Len(log) :
           (IsClear(i) /\ i > 1 /\ IsClear(i - 1)) => log[i].after = log[i - 1].after
    /\ \A i \in 2..Len(log) : (IsGet(i) /\ IsClear(i - 1)) => log[i].ran
    /\ (Len(log) > 0 /\ IsClear(Len(log))) => dataCache = NullCache

\* A filled cache cleared twice in a row and then read again
C3_Witness ==
    \E i \in 1..Len(log) :
        /\ i + 3 <= Len(log)
        /\ IsGet(i) /\ ~log[i].after.isNull
        /\ IsClear(i + 1) /\ IsClear(i + 2)
        /\ IsGet(i + 3) /\ log[i + 3].ran

\* The getData call whose generation filled the cache that call i read threw
GenerationThrewFor(i) ==
    \E j \in 1..i : IsGet(j) /\ log[j].genThrew /\ (j = i \/ NoClearBetween(j, i + 1))

\* C4: when generation throws, getData swallows the error and returns the
\* empty record set, and the page ends with data = [] and loading = false.
C4_GenerationFailureGivesEmpty ==
    /\ \A i \in 1..Len(log) :
           (IsGet(i) /\ log[i].genThrew) => (~log[i].threw /\ log[i].ret = <<>>)
    /\ pagePc \in {"timer0", "ready"} => loading = FALSE
    /\ \A i \in 1..Len(log) :
           (IsGet(i) /\ log[i].caller = "page" /\ GenerationThrewFor(i))
               => (data = <<>> /\ loading = FALSE /\ pagePc \in {"timer0", "ready"})

\* The page has finished loading after its own getData hit a throwing generation
C4_Witness ==
    /\ pagePc = "ready"
    /\ data = <<>>
    /\ loading = FALSE
    /\ \E i \in 1..Len(log) : IsGet(i) /\ log[i].caller = "page" /\ log[i].genThrew

-----------------------------------------------------------------------------
(* Hierarchy catalog: getSalesChannelHierarchy.  A plain string entry of    *)
(* subCategories is kept as a sub-category without children.                *)

getSalesChannelHierarchy == <<
    [mainCategory |-> "D2C & Digital Platforms",
     subCategories |-> <<
        [name |-> "E-commerce Marketplaces (Amazon, Flipkart, etc.)", children |-> <<>>],
        [name |-> "Brand D2C Websites & Apps", children |-> <<>>],
        [name |-> "Quick Commerce Platforms", children |-> <<>>],
        [name |-> "Social / Influencer-led Commerce", children |-> <<>>] >>],
    [mainCategory |-> "Offline Retail",
     subCategories |-> <<
        [name |-> "Supermarkets / Hypermarkets", children |-> <<>>],
        [name |-> "Beauty & Cosmetic Specialty Stores", children |-> <<>>],
        [name |-> "Pharmacies / Drugstores", children |-> <<>>],
        [name |-> "Neighbourhood / Convenience Stores", children |-> <<>>],
        [name |-> "Professional & Institutional",
         children |-> <<"Salons & Spa Chains", "Aesthetic / Dermatology Clinics">>] >>],
    [mainCategory |-> "Others",
     subCategories |-> <<
        [name |-> "Direct Selling, MLM Networks, etc.", children |-> <<>>] >>]
>>

-----------------------------------------------------------------------------
(* HierarchicalFilterDropdown: the value each click passes to onChange.     *)
(* value is the current selection (the `value` prop), kept as a set.        *)

\* `${mainCategory} - ${sub}`
FullName(mainCategory, sub) == mainCategory \o " - " \o sub

\* v.startsWith(`${mainCategory} - `): among the catalog's values, exactly the
\* children of mainCategory (no main category's name is a prefix of another's)
StartsWithMain(v, mainCategory) == v \in ChildrenOf(mainCategory)

toggleMainCategory(value, mainCategory, subCategories) ==
    LET fullNames == {FullName(mainCategory, sub) : sub \in Range(subCategories)}
        allSubsSelected == \A fullName \in fullNames :
                               fullName \in value \/ mainCategory \in value
    IN  IF allSubsSelected
        THEN {v \in value : ~StartsWithMain(v, mainCategory) /\ v # mainCategory}
        ELSE value \cup fullNames \cup {mainCategory}

ToggleOnlySub(value, mainCategory, subCategory) ==
    IF FullName(mainCategory, subCategory) \in value
    THEN value \ {FullName(mainCategory, subCategory)}
    ELSE value \cup {FullName(mainCategory, subCategory)}
toggleSubCategory(value, mainCategory, subCategory) ==
    LET fullName == FullName(mainCategory, subCategory)
        newValue == IF fullName \in value THEN value \ {fullName}
                    ELSE value \cup {fullName}
    IN  IF fullName \notin newValue /\ mainCategory \in value
        THEN newValue \ {mainCategory}
        ELSE IF fullName \in newValue /\ mainCategory \notin value
        THEN newValue \cup {mainCategory}
        ELSE newValue

clearAll == {}

selectAll(hierarchy) ==
    UNION {{hierarchy[i].mainCategory}
              \cup {FullName(hierarchy[i].mainCategory, sub) :
                       sub \in Range(hierarchy[i].subCategories)} :
           i \in 1..Len(hierarchy)}

\* Every value one click in the product-type dropdown can emit
HierarchicalEmits(value, hierarchy) ==
    {clearAll, selectAll(hierarchy)}
        \cup {toggleMainCategory(value, hierarchy[i].mainCategory,
                                 hierarchy[i].subCategories) : i \in 1..Len(hierarchy)}
        \cup UNION {{toggleSubCategory(value, hierarchy[i].mainCategory, sub) :
                        sub \in Range(hierarchy[i].subCategories)} :
                    i \in 1..Len(hierarchy)}

-----------------------------------------------------------------------------
(* NestedHierarchicalFilterDropdown: the value each click passes to onChange *)

getAllSubItems(item) ==
    UNION {{FullName(item.mainCategory, sub.name)}
              \cup {FullName(FullName(item.mainCategory, sub.name), child) :
                       child \in Range(sub.children)} :
           sub \in Range(item.subCategories)}

nestedToggleMainCategory(value, item) ==
    LET allSubs == getAllSubItems(item)
        allSelected == allSubs \subseteq value
    IN  IF allSelected
        THEN {v \in value : v \notin allSubs /\ v # item.mainCategory}
        ELSE value \cup allSubs \cup {item.mainCategory}

nestedToggleSubCategory(value, mainCategory, sub) ==
    LET fullName == FullName(mainCategory, sub.name)
        hasChildren == Len(sub.children) > 0
        allChildren == {FullName(fullName, child) : child \in Range(sub.children)}
    IN  IF hasChildren
        THEN IF allChildren \subseteq value
             THEN {v \in value : v \notin allChildren /\ v # fullName}
             ELSE value \cup allChildren \cup {fullName}
        ELSE IF fullName \in value THEN value \ {fullName}
             ELSE value \cup {fullName}

toggleLeafItem(value, mainCategory, subName, leafName) ==
    LET fullName == FullName(FullName(mainCategory, subName), leafName)
    IN  IF fullName \in value THEN value \ {fullName} ELSE value \cup {fullName}

nestedSelectAll(hierarchy) ==
    UNION {{hierarchy[i].mainCategory} \cup getAllSubItems(hierarchy[i]) :
           i \in 1..Len(hierarchy)}

\* Every value one click in the sales-channel dropdown can emit
NestedEmits(value, hierarchy) ==
    {clearAll, nestedSelectAll(hierarchy)}
        \cup {nestedToggleMainCategory(value, hierarchy[i]) : i \in 1..Len(hierarchy)}
        \cup UNION {{nestedToggleSubCategory(value, hierarchy[i].mainCategory, sub) :
                        sub \in Range(hierarchy[i].subCategories)} :
                    i \in 1..Len(hierarchy)}
        \cup UNION {UNION {{toggleLeafItem(value, hierarchy[i].mainCategory,
                                           sub.name, child) :
                               child \in Range(sub.children)} :
                           sub \in Range(hierarchy[i].subCategories)} :
                    i \in 1..Len(hierarchy)}

-----------------------------------------------------------------------------
(* MarketAnalysis: the filter panel of the standard tab *)

\* uniqueOptions: the distinct values found in data, sorted
uniqueOptions(d) ==
    [years         |-> SortYears({d[i].year : i \in 1..Len(d)}),
     countries     |-> Available(d, "region"),
     bladeMaterials |-> Available(d, "bladeMaterial"),
     handleLengths |-> Available(d, "handleLength"),
     applications  |-> Available(d, "application"),
     endUsers      |-> Available(d, "endUser")]

\* String(y) of a year / Number(v) of an option of the year dropdown
String(y) == ToString(y)

Number(v, options) == CHOOSE y \in Range(options) : String(y) = v

\* FilterDropdown (multi-select): a click toggles one option of the list or
\* clears the selection; onChange receives the resulting selection
FilterDropdownEmits(value, options) ==
    {{}} \cup {IF o \in value THEN value \ {o} ELSE value \cup {o} : o \in Range(options)}

\* The filters whose FilterDropdown lists uniqueOptions strings
OptionsOf ==
    [country |-> "countries", bladeMaterial |-> "bladeMaterials",
     handleLength |-> "handleLengths", application |-> "applications",
     endUser |-> "endUsers"]

\* The filter panel is rendered once the page no longer shows its spinner
PanelShown == loading = FALSE /\ changes < MaxChanges

\* onChange of "Year": setFilters({...filters, year: value.map(v => Number(v))})
ChangeYear ==
    /\ PanelShown
    /\ \E value \in FilterDropdownEmits({String(y) : y \in filters.year},
                                        [i \in 1..Len(uniqueOptions(data).years) |->
                                            String(uniqueOptions(data).years[i])]) :
           filters' = [filters EXCEPT
                          !.year = {Number(v, uniqueOptions(data).years) : v \in value}]
    /\ changes' = changes + 1
    /\ UNCHANGED <<dataCache, seed, genRuns, log, pagePc, data, loading, calcInput, calcResult, resolver>>

\* onChange of a plain FilterDropdown: setFilters({...filters, [field]: value})
ChangeFilter(field) ==
    /\ PanelShown
    /\ \E value \in FilterDropdownEmits(filters[field],
                                        uniqueOptions(data)[OptionsOf[field]]) :
           filters' = [filters EXCEPT ![field] = value]
    /\ changes' = changes + 1
    /\ UNCHANGED <<dataCache, seed, genRuns, log, pagePc, data, loading, calcInput, calcResult, resolver>>

\* onChange of "By Product Type": setFilters({...filters, productType: value})
ChangeProductType ==
    /\ PanelShown
    /\ \E value \in HierarchicalEmits(filters.productType, getProductTypeHierarchy) :
           filters' = [filters EXCEPT !.productType = value]
    /\ changes' = changes + 1
    /\ UNCHANGED <<dataCache, seed, genRuns, log, pagePc, data, loading, calcInput, calcResult, resolver>>

\* onChange of "By Sales Channel"
ChangeSalesChannel ==
    /\ PanelShown
    /\ \E value \in NestedEmits(filters.distributionChannelType, getSalesChannelHierarchy) :
           filters' = [filters EXCEPT !.distributionChannelType = value]
    /\ changes' = changes + 1
    /\ UNCHANGED <<dataCache, seed, genRuns, log, pagePc, data, loading, calcInput, calcResult, resolver>>

NextPage ==
    \/ PageMount
    \/ PageLoadTimer(FALSE)
    \/ PageDefaultsTimer
    \/ ChangeYear
    \/ \E field \in DOMAIN OptionsOf : ChangeFilter(field)
    \/ ChangeProductType
    \/ ChangeSalesChannel

\* The page alone: its load, then the user at the filter panel
SpecPage == Init /\ [][NextPage]_vars

-----------------------------------------------------------------------------
(* The filters: the page's filteredData and dataGenerator's filterDataframe *)

\* filteredData restricted to its first test (the year filter alone)
filteredDataYearOnly(d, f) ==
    IF f.year # {} THEN SelectSeq(d, LAMBDA r : r.year \in f.year) ELSE d

\* useMemo filteredData: one .filter pass per non-empty selection, in the
\* order of the source.  filters.country is tested against d.region, and
\* filters.distributionChannel is not applied.
filteredData(d, f) ==
    LET byYear ==
            IF f.year # {} THEN SelectSeq(d, LAMBDA r : r.year \in f.year) ELSE d
        byCountry ==
            IF f.country # {}
            THEN SelectSeq(byYear, LAMBDA r : r.region \in f.country) ELSE byYear
        byProductType ==
            IF f.productType # {}
            THEN SelectSeq(byCountry, LAMBDA r : r.productType \in f.productType)
            ELSE byCountry
        byBladeMaterial ==
            IF f.bladeMaterial # {}
            THEN SelectSeq(byProductType, LAMBDA r : r.bladeMaterial \in f.bladeMaterial)
            ELSE byProductType
        byHandleLength ==
            IF f.handleLength # {}
            THEN SelectSeq(byBladeMaterial, LAMBDA r : r.handleLength \in f.handleLength)
            ELSE byBladeMaterial
        byApplication ==
            IF f.application # {}
            THEN SelectSeq(byHandleLength, LAMBDA r : r.application \in f.application)
            ELSE byHandleLength
        byEndUser ==
            IF f.endUser # {}
            THEN SelectSeq(byApplication, LAMBDA r : r.endUser \in f.endUser)
            ELSE byApplication
    IN  IF f.distributionChannelType # {}
        THEN SelectSeq(byEndUser,
                       LAMBDA r : r.distributionChannelType \in f.distributionChannelType)
        ELSE byEndUser

\* Object.entries(filters), in the key order of the page's filter state
FilterEntries ==
    <<"year", "country", "productType", "bladeMaterial", "handleLength",
      "application", "endUser", "distributionChannelType", "distributionChannel",
      "marketEvaluation">>

\* Array.isArray(values): every entry but the marketEvaluation string
IsArrayEntry(field) == field # "marketEvaluation"

\* filterDataframe's loop from entry k on
RECURSIVE FilterByEntries(_, _, _)
FilterByEntries(filtered, f, k) ==
    IF k > Len(FilterEntries) THEN filtered
    ELSE LET field == FilterEntries[k]
         IN  IF IsArrayEntry(field) /\ f[field] # {}
             THEN FilterByEntries(
                      SelectSeq(filtered,
                                LAMBDA item :
                                    IF field = "year"
                                    THEN String(item[field]) \in {String(v) : v \in f[field]}
                                    ELSE item[field] \in f[field]),
                      f, k + 1)
             ELSE FilterByEntries(filtered, f, k + 1)

filterDataframe(d, f) == FilterByEntries(d, f, 1)

-----------------------------------------------------------------------------
(* analysisData: the per-year / per-segment aggregators *)

\* getDataValue: volumeUnits, or marketValueUsd / 1000 (read in thousandths)
getDataValue(d, f) ==
    IF f.marketEvaluation = "By Volume" THEN d.volumeUnits ELSE d.marketValueUsd

\* A value that may be undefined: <<>> is undefined, <<n>> is the number n
\* Map.prototype.get
MapGet(map, key) == IF key \in DOMAIN map THEN <<map[key]>> ELSE <<>>

\* v || 0
KeepUndefined(v) == v
OrZero(v) == IF v = <<>> THEN <<0>> ELSE v

RECURSIVE SumRange(_, _, _)
SumRange(s, lo, hi) ==
    IF lo > hi THEN 0
    ELSE IF lo = hi THEN s[lo]
    ELSE LET mid == (lo + hi) \div 2
         IN  SumRange(s, lo, mid) + SumRange(s, mid + 1, hi)

\* map.set(key, (map.get(key) || 0) + getDataValue(d)) run over the records of
\* one key, whose values are `values` in record order: the entry it leaves
\* (the first record of a key finds no entry and starts from 0)
LastOnly(values) == values[Len(values)]
Accumulated(values) == SumRange(values, 1, Len(values))

\* The values getDataValue gives for the records of fd with an index in I,
\* in record order
ValuesOf(fd, f, I) ==
    LET sel == SelectSeq([i \in 1..Len(fd) |-> i], LAMBDA i : i \in I)
    IN  [k \in 1..Len(sel) |-> getDataValue(fd[sel[k]], f)]

\* years = [...new Set(filteredData.map(d => d.year))].sort()
YearsOf(fd) == SortYears({fd[i].year : i \in 1..Len(fd)})

\* The segment axis: the selected segments if any, else those found in the data
SegmentAxis(fd, field, selectedSegments) ==
    IF selectedSegments # {}
    THEN SortStrings(selectedSegments \ {""})
    ELSE SortStrings({fd[i][field] : i \in 1..Len(fd)} \ {""})

\* `${year}-${segment}`
YearSegmentKey(year, segment) == String(year) \o "-" \o segment

\* One chart row: { year: String(year) } and entry[segment] = got[segment] for
\* every segment of the axis.  A key whose value is undefined is absent.
Row(year, got) ==
    [k \in {"year"} \cup {s \in DOMAIN got : got[s] # <<>>} |->
        IF k = "year" THEN String(year) ELSE got[k][1]]

EmptyDataset == [chartData |-> <<>>, segments |-> <<>>]

generateSegmentChartData(fd, f, field, selectedSegments) ==
    LET segments == SegmentAxis(fd, field, selectedSegments)
        keys == {YearSegmentKey(fd[i].year, fd[i][field]) : i \in 1..Len(fd)}
        segmentMap ==
            [key \in keys |->
                Accumulated(ValuesOf(fd, f,
                    {i \in 1..Len(fd) : YearSegmentKey(fd[i].year, fd[i][field]) = key}))]
        chartYears == YearsOf(fd)
        chartData ==
            [y \in 1..Len(chartYears) |->
                Row(chartYears[y],
                    [segment \in Range(segments) |->
                        OrZero(MapGet(segmentMap,
                                      YearSegmentKey(chartYears[y], segment)))])]
    IN  [chartData |-> chartData, segments |-> segments]

\* chartData.some(entry => entry[segment] > 0)
EverySegmentActive(chartData, segment) == TRUE
IsActive(chartData, segment) ==
    \E y \in 1..Len(chartData) :
        segment \in DOMAIN chartData[y] /\ chartData[y][segment] > 0

generateYearWiseStackedBarData(fd, f, field, selectedSegments) ==
    LET segments == SegmentAxis(fd, field, selectedSegments)
        \* if (segment) { ... }: records with an empty segment are skipped
        counted == SelectSeq(fd, LAMBDA d : d[field] # "")
        yearSegmentMap ==
            [year \in {counted[i].year : i \in 1..Len(counted)} |->
                [segment \in {counted[i][field] :
                                 i \in {j \in 1..Len(counted) : counted[j].year = year}} |->
                    Accumulated(ValuesOf(counted, f,
                        {i \in 1..Len(counted) :
                            counted[i].year = year /\ counted[i][field] = segment}))]]
        chartYears == YearsOf(fd)
        chartData ==
            [y \in 1..Len(chartYears) |->
                LET segmentMap == IF chartYears[y] \in DOMAIN yearSegmentMap
                                  THEN yearSegmentMap[chartYears[y]]
                                  ELSE <<>>
                IN  Row(chartYears[y],
                        [segment \in Range(segments) |->
                            OrZero(MapGet(segmentMap, segment))])]
        activeSegments == SelectSeq(segments, LAMBDA segment : IsActive(chartData, segment))
    IN  [chartData |-> chartData, segments |-> activeSegments]

\* generateProductTypeChartData
generateProductTypeChartData(fd, f) ==
    LET selectedProductTypes == f.productType
        allProductTypesFromData ==
            SortStrings({fd[i].productType : i \in 1..Len(fd)} \ {""})
        \* parentToChildren.has(selected)
        selectedParents == {selected \in selectedProductTypes : selected \in Parents}
        selectedChildren == {selected \in selectedProductTypes : selected \notin Parents}
        chartYears == YearsOf(fd)
        \* the single-parent case: the parent's children found in the data
        validChildren ==
            IF Cardinality(selectedParents) = 1 /\ selectedChildren = {}
            THEN SelectSeq(ParentToChildren[TheOnly(selectedParents)],
                           LAMBDA child : child \in Range(allProductTypesFromData))
            ELSE <<>>
        counted == SelectSeq(fd, LAMBDA d : d.productType \in Range(validChildren))
        yearChildMap ==
            [year \in {counted[i].year : i \in 1..Len(counted)} |->
                [child \in {counted[i].productType :
                               i \in {j \in 1..Len(counted) : counted[j].year = year}} |->
                    Accumulated(ValuesOf(counted, f,
                        {i \in 1..Len(counted) :
                            counted[i].year = year /\ counted[i].productType = child}))]]
        stackedChartData ==
            [y \in 1..Len(chartYears) |->
                LET childMap == IF chartYears[y] \in DOMAIN yearChildMap
                                THEN yearChildMap[chartYears[y]]
                                ELSE <<>>
                IN  Row(chartYears[y],
                        [child \in Range(validChildren) |-> OrZero(MapGet(childMap, child))])]
        \* the grouped case: a selected parent stands for its children found in
        \* the data, any other selected value for itself if found in the data
        segmentsToShow ==
            IF selectedProductTypes # {}
            THEN SortStrings(
                     UNION {IF selected \in Parents
                            THEN {child \in ChildrenOf(selected) :
                                     child \in Range(allProductTypesFromData)}
                            ELSE {selected} \cap Range(allProductTypesFromData) :
                            selected \in selectedProductTypes})
            ELSE allProductTypesFromData
        shown == SelectSeq(fd, LAMBDA d : d.productType \in Range(segmentsToShow))
        segmentMap ==
            [key \in {YearSegmentKey(shown[i].year, shown[i].productType) :
                         i \in 1..Len(shown)} |->
                Accumulated(ValuesOf(shown, f,
                    {i \in 1..Len(shown) :
                        YearSegmentKey(shown[i].year, shown[i].productType) = key}))]
        chartData ==
            [y \in 1..Len(chartYears) |->
                Row(chartYears[y],
                    [segment \in Range(segmentsToShow) |->
                        OrZero(MapGet(segmentMap,
                                      YearSegmentKey(chartYears[y], segment)))])]
    IN  IF Len(validChildren) > 0
        THEN [chartData |-> <<>>, segments |-> <<>>,
              stackedChartData |-> stackedChartData, stackedSegments |-> validChildren,
              isStacked |-> TRUE]
        ELSE [chartData |-> chartData, segments |-> segmentsToShow,
              stackedChartData |-> <<>>, stackedSegments |-> <<>>,
              isStacked |-> FALSE]

\* The fields charted by generateSegmentChartData and by
\* generateYearWiseStackedBarData; each call passes filters[field] as the
\* selected segments (undefined when the selection is empty)
GroupedFields == {"bladeMaterial", "handleLength", "application", "endUser"}

StackedFields == GroupedFields \cup {"distributionChannelType"}

\* useMemo analysisData: nothing is charted when no record passes the filters
analysisData(fd, f) ==
    IF Len(fd) = 0
    THEN [grouped |-> [field \in GroupedFields |-> EmptyDataset],
          stacked |-> [field \in StackedFields |-> EmptyDataset],
          productType |-> [chartData |-> <<>>, segments |-> <<>>,
                           stackedChartData |-> <<>>, stackedSegments |-> <<>>,
                           isStacked |-> FALSE]]
    ELSE [grouped |-> [field \in GroupedFields |->
                          generateSegmentChartData(fd, f, field, f[field])],
          stacked |-> [field \in StackedFields |->
                          generateYearWiseStackedBarData(fd, f, field, f[field])],
          productType |-> generateProductTypeChartData(fd, f)]

-----------------------------------------------------------------------------
(* The page's product-type handler taken alone: setFilters({...filters,    *)
(* productType: value}) for any value of at most two catalog entries       *)

CatalogValues == selectAll(getProductTypeHierarchy)

OnChangeProductType ==
    /\ PanelShown
    /\ \E value \in {{}} \cup {{a, b} : a \in CatalogValues, b \in CatalogValues} :
           filters' = [filters EXCEPT !.productType = value]
    /\ changes' = changes + 1
    /\ UNCHANGED <<dataCache, seed, genRuns, log, pagePc, data, loading, calcInput, calcResult, resolver>>

NextOnChange ==
    \/ PageMount
    \/ PageLoadTimer(FALSE)
    \/ PageDefaultsTimer
    \/ OnChangeProductType

SpecOnChange == Init /\ [][NextOnChange]_vars

-----------------------------------------------------------------------------
(* The filter and aggregation engine's contract *)

\* The records the standard tab charts in the current state
Filtered == filteredData(data, filters)

\* The record passes the membership test of every non-empty selection
PassesEvery(r, f) ==
    \A field \in FilterFields : f[field] = {} \/ r[field] \in f[field]

\* C5: filtering keeps exactly the records that pass, for every filter field
\* with a non-empty selection, the test "the record's value of that field is
\* a member of the selection"; an empty selection imposes no constraint.
\* This holds for the page's filteredData and for filterDataframe applied to
\* the page's filter state.
C5_FilterKeepsMembers ==
    \A expected \in {SelectSeq(data, LAMBDA r : PassesEvery(r, filters))} :
        /\ filteredData(data, filters) = expected
        /\ filterDataframe(data, filters) = expected

\* After a change at the filter panel some selections are empty, some are
\* not, and the filter keeps some records and drops others
C5_Witness ==
    /\ pagePc = "ready"
    /\ changes > 0
    /\ \E field \in FilterFields \ {"distributionChannel"} : filters[field] = {}
    /\ \E field \in FilterFields : filters[field] # {}
    /\ \E n \in {Len(Filtered)} : 0 < n /\ n < Len(data)

\* The segment axis of a chart over `field`: the explicit selection, or the
\* distinct non-empty values observed in the filtered records
AxisOf(fd, field) ==
    IF filters[field] # {} THEN filters[field] \ {""}
    ELSE {fd[i][field] : i \in 1..Len(fd)} \ {""}

DistinctYears(fd) == {fd[i].year : i \in 1..Len(fd)}

\* The filtered records of one (year, segment) pair
RecordsAt(fd, field, year, segment) ==
    {i \in 1..Len(fd) : fd[i].year = year /\ fd[i][field] = segment}

\* One row per distinct year; every row has every axis key with a number,
\* which is 0 when no record has the pair
Complete(fd, field, chartData) ==
    /\ Len(chartData) = Cardinality(DistinctYears(fd))
    /\ {chartData[y].year : y \in 1..Len(chartData)}
           = {String(year) : year \in DistinctYears(fd)}
    /\ \A year \in DistinctYears(fd), y \in 1..Len(chartData) :
           chartData[y].year = String(year) =>
               \A segment \in AxisOf(fd, field) :
                   /\ segment \in DOMAIN chartData[y]
                   /\ chartData[y][segment] \in Nat
                   /\ RecordsAt(fd, field, year, segment) = {}
                          => chartData[y][segment] = 0

\* C6: in every output of the grouped and stacked segment aggregators there
\* is one row per distinct year of the filtered records, and every row
\* contains every key of the segment axis with a numeric value, which is 0
\* when no record has that (year, segment) pair.
C6_AggregationComplete ==
    \A fd \in {Filtered} : \A a \in {analysisData(fd, filters)} :
        /\ \A field \in GroupedFields : Complete(fd, field, a.grouped[field].chartData)
        /\ \A field \in StackedFields : Complete(fd, field, a.stacked[field].chartData)

\* A row in which one selected segment has no record (0) and another has some
Sparse(fd, field, chartData) ==
    \E year \in DistinctYears(fd), y \in 1..Len(chartData) :
        /\ chartData[y].year = String(year)
        /\ \E empty \in filters[field], full \in filters[field] :
               /\ RecordsAt(fd, field, year, empty) = {}
               /\ chartData[y][empty] = 0
               /\ chartData[y][full] > 0

C6_Witness ==
    /\ pagePc = "ready"
    /\ \E fd \in {Filtered} : \E a \in {analysisData(fd, filters)} :
           \E field \in GroupedFields :
               /\ Sparse(fd, field, a.grouped[field].chartData)
               /\ Sparse(fd, field, a.stacked[field].chartData)

\* The sum of the value selector over the records lo .. hi whose index is in I
RECURSIVE SumOfRecordsIn(_, _, _, _, _)
SumOfRecordsIn(fd, f, I, lo, hi) ==
    IF lo > hi THEN 0
    ELSE IF lo = hi THEN (IF lo \in I THEN getDataValue(fd[lo], f) ELSE 0)
    ELSE LET mid == (lo + hi) \div 2
         IN  SumOfRecordsIn(fd, f, I, lo, mid) + SumOfRecordsIn(fd, f, I, mid + 1, hi)

SumOfRecords(fd, f, I) == SumOfRecordsIn(fd, f, I, 1, Len(fd))

Summed(fd, field, chartData) ==
    \A year \in DistinctYears(fd), y \in 1..Len(chartData) :
        chartData[y].year = String(year) =>
            \A segment \in AxisOf(fd, field) :
                /\ segment \in DOMAIN chartData[y]
                /\ chartData[y][segment]
                       = SumOfRecords(fd, filters, RecordsAt(fd, field, year, segment))

\* C7: for every year row and every key of the segment axis, the value in the
\* aggregated chart data equals the sum of the value selector over exactly
\* the filtered records having that year and that segment, whether the axis
\* is the explicit selection or the values observed in the data.
C7_ValuesAreSums ==
    \A fd \in {Filtered} : \A a \in {analysisData(fd, filters)} :
        /\ \A field \in GroupedFields :
               /\ Len(a.grouped[field].chartData) = Cardinality(DistinctYears(fd))
               /\ Summed(fd, field, a.grouped[field].chartData)
        /\ \A field \in StackedFields :
               /\ Len(a.stacked[field].chartData) = Cardinality(DistinctYears(fd))
               /\ Summed(fd, field, a.stacked[field].chartData)

\* Some (year, segment) pair of the chart over `field` sums several records
SumsSeveral(fd, field) ==
    \E year \in DistinctYears(fd), segment \in AxisOf(fd, field) :
        Cardinality(RecordsAt(fd, field, year, segment)) >= 2

\* Several records are summed under one key, on an axis taken from the
\* selection and on an axis taken from the data
C7_Witness ==
    /\ loading = FALSE
    /\ changes > 0
    /\ \E fd \in {Filtered} :
           /\ \E field \in GroupedFields : filters[field] # {} /\ SumsSeveral(fd, field)
           /\ \E field \in GroupedFields : filters[field] = {} /\ SumsSeveral(fd, field)

\* The product-type chart of the current state never comes out stacked
ProductTypeChartNeverStacked ==
    ~analysisData(Filtered, filters).productType.isStacked

C9_HierarchyExpansion ==
    \A out \in {analysisData(Filtered, filters).productType} :
        (~out.isStacked /\ Len(out.chartData) > 0) =>
            /\ \A parent \in filters.productType \cap Parents :
                   /\ ChildrenOf(parent) \subseteq Range(out.segments)
                   /\ parent \notin Range(out.segments)
            /\ "Skin Care" \in filters.productType =>
                   Cardinality(Range(out.segments) \cap ChildrenOf("Skin Care")) = 6

\* C10: the stacked aggregator's returned segment list contains exactly those
\* segments of the segment axis that have a value greater than 0 in at least
\* one year row; a segment that is 0 in every year is not in the list.
C10_ActiveSegmentsOnly ==
    \A fd \in {Filtered} : \A a \in {analysisData(fd, filters)} :
        \A field \in StackedFields :
            Range(a.stacked[field].segments)
                = {segment \in AxisOf(fd, field) :
                      \E y \in 1..Len(a.stacked[field].chartData) :
                          /\ segment \in DOMAIN a.stacked[field].chartData[y]
                          /\ a.stacked[field].chartData[y][segment] > 0}

\* A stacked chart keeps one selected segment and drops another
C10_Witness ==
    /\ pagePc = "ready"
    /\ \E fd \in {Filtered} : \E a \in {analysisData(fd, filters)} :
           \E field \in StackedFields :
               /\ Len(a.stacked[field].chartData) > 0
               /\ \E kept \in filters[field], dropped \in filters[field] :
                      /\ kept \in Range(a.stacked[field].segments)
                      /\ dropped \notin Range(a.stacked[field].segments)

-----------------------------------------------------------------------------
(* Derived series of the page, computed on a record set: the calculators  *)
(* are pure, so they are applied to every record set of a bounded family *)

\* Longest record set handed to a calculator
MaxRecords == 2

\* n / d kept exact; a zero denominator is the quotient JavaScript would
\* return as NaN or Infinity
Ratio(n, d) == [num |-> n, den |-> d]

\* Object.keys on string keys: each key once, in order of first insertion
RECURSIVE KeysFrom(_, _)
KeysFrom(s, i) ==
    IF i > Len(s) THEN <<>>
    ELSE IF \E j \in 1..(i - 1) : s[j] = s[i] THEN KeysFrom(s, i + 1)
    ELSE <<s[i]>> \o KeysFrom(s, i + 1)

\* Array.prototype.flatMap, after the map
RECURSIVE Flatten(_)
Flatten(ss) == IF ss = <<>> THEN <<>> ELSE Head(ss) \o Flatten(Tail(ss))

\* regionYearData[yearKey][region][country] after the forEach
regionYearData(fd, f, year, region, country) ==
    SumRange([i \in 1..Len(fd) |->
                 IF fd[i].year = year /\ fd[i].region = region
                        /\ fd[i].country = country
                 THEN getDataValue(fd[i], f) ELSE 0], 1, Len(fd))

\* regionYearTotals[yearKey][region] after the forEach
regionYearTotals(fd, f, year, region) ==
    SumRange([i \in 1..Len(fd) |->
                 IF fd[i].year = year /\ fd[i].region = region
                 THEN getDataValue(fd[i], f) ELSE 0], 1, Len(fd))

\* totalValue > 0 ? ((value / totalValue) * 100) : 0
UnguardedPercentage(value, totalValue) == Ratio(value * 100, totalValue)
percentage(value, totalValue) ==
    IF totalValue > 0 THEN Ratio(value * 100, totalValue) ELSE Ratio(0, 1)

\* One output entry of the region/country breakdown
CountryEntry(fd, f, year, region, country) ==
    \* bound once: value and totalValue of the entry
    TheOnly({[year |-> year, region |-> region, country |-> country,
              value |-> IF f.marketEvaluation = "By Volume"
                        THEN Ratio(value, 1)
                        ELSE percentage(value, totalValue),
              yearRegion |-> ToString(year) \o " - " \o region] :
                 value \in {regionYearData(fd, f, year, region, country)},
                 totalValue \in {regionYearTotals(fd, f, year, region)}})

\* Object.entries(regionYearData).flatMap(... flatMap(... countryList.map)):
\* year keys are integer-like and enumerate ascending, regions enumerate in
\* insertion order, countries are sorted
regionCountryPercentageChartData(fd, f) ==
    LET at(year) == SelectSeq(fd, LAMBDA d : d.year = year)
        regionKeys(year) ==
            KeysFrom([i \in 1..Len(at(year)) |-> at(year)[i].region], 1)
        countryList(year, region) ==
            SortStrings({fd[i].country : i \in
                {k \in 1..Len(fd) : fd[k].year = year /\ fd[k].region = region}})
        yearKeys == SortYears({fd[i].year : i \in 1..Len(fd)})
    IN  Flatten([y \in 1..Len(yearKeys) |->
            Flatten([r \in 1..Len(regionKeys(yearKeys[y])) |->
                [c \in 1..Len(countryList(yearKeys[y], regionKeys(yearKeys[y])[r])) |->
                    CountryEntry(fd, f, yearKeys[y], regionKeys(yearKeys[y])[r],
                        countryList(yearKeys[y], regionKeys(yearKeys[y])[r])[c])]])])

\* The places of the record sets handed to the calculators
SharePlaces == {"North India", "South India"}

\* Every sequence over S of length at most n
SeqsUpTo(S, n) == UNION {[1..k -> S] : k \in 0..n}

\* Record sets of the region/country breakdown, with the fields it reads, and
\* the evaluation mode
ShareInputs ==
    {[fn |-> "regionCountryPercentageChartData", records |-> fd,
      filters |-> [InitialFilters EXCEPT !.marketEvaluation = mode]] :
        fd \in SeqsUpTo({[year |-> y, region |-> r, country |-> c,
                          marketValueUsd |-> a[1], volumeUnits |-> a[2]] :
                            y \in {2024, 2025}, r \in SharePlaces,
                            c \in SharePlaces,
                            a \in {<<0, 0>>, <<1, 2>>, <<2, 1>>}}, MaxRecords),
        mode \in {"By Value", "By Volume"}}

\* The memo runs on the record set it is given
ComputeRegionCountryPercentage ==
    /\ calcInput.fn = "regionCountryPercentageChartData"
    /\ calcResult = NoCall
    /\ calcResult' = [fn |-> calcInput.fn,
                      out |-> regionCountryPercentageChartData(
                                  calcInput.records, calcInput.filters)]
    /\ UNCHANGED <<dataCache, seed, genRuns, log, pagePc, data, loading,
                   filters, changes, calcInput, resolver>>

-----------------------------------------------------------------------------
(* waterfallData: the incremental-opportunity series *)

\* The base value used when the 2024 total is 0
DefaultBaseValue == 57159

\* [2638.4, 2850.4, 3055.6, 3231.0, 3432.9, 3674.2, 3885.1], in tenths
DefaultIncrements == <<26384, 28504, 30556, 32310, 34329, 36742, 38851>>

\* An amount in millions, kept exact:
\*   units / 1000  +  (tenths / 10) * (baseValue / 57159)
\* where baseValue is the base value of the series the amount belongs to
Amount(units, tenths) == [units |-> units, tenths |-> tenths]
Plus(x, y) == Amount(x.units + y.units, x.tenths + y.tenths)

\* filteredIncrementalData.filter(d => d.year === year)
\*     .reduce((sum, d) => sum + (d.marketValueUsd || 0) / 1000, 0), in thousandths
YearTotal(fd, year) ==
    SumRange([i \in 1..Len(fd) |->
                 IF fd[i].year = year THEN fd[i].marketValueUsd ELSE 0],
             1, Len(fd))

\* ... || 57159
DefaultBaseAlways(fd) == Amount(DefaultBaseValue * 1000, 0)
baseValueOf(fd) ==
    IF YearTotal(fd, 2024) # 0 THEN Amount(YearTotal(fd, 2024), 0)
    ELSE Amount(DefaultBaseValue * 1000, 0)

\* yearValue > 0 && prevYearValue > 0 ? yearValue - prevYearValue
\*     : [...][year - 2025] * (baseValue / 57159)
DifferenceAlways(yearValue, prevYearValue, year) ==
    Amount(yearValue - prevYearValue, 0)
incremental(yearValue, prevYearValue, year) ==
    IF yearValue > 0 /\ prevYearValue > 0
    THEN Amount(yearValue - prevYearValue, 0)
    ELSE Amount(0, DefaultIncrements[year - 2025 + 1])

\* for (let year = 2025; year <= 2031; year++) incrementalValues.push(...)
incrementalValues(fd) ==
    [k \in 1..7 |->
        [year |-> String(2024 + k),
         value |-> incremental(YearTotal(fd, 2024 + k),
                               YearTotal(fd, 2023 + k), 2024 + k)]]

\* reduce((sum, item) => sum + item.value, 0) over the first k items
RECURSIVE SumValues(_, _)
SumValues(items, k) ==
    IF k = 0 THEN Amount(0, 0)
    ELSE Plus(SumValues(items, k - 1), items[k].value)

\* cumulative after "cumulative += item.value" for the k-th item
NotAccumulated(baseValue, items, k) == Plus(baseValue, items[k].value)
cumulative(baseValue, items, k) == Plus(baseValue, SumValues(items, k))

waterfallData(fd) ==
    TheOnly({
        [chartData |->
            <<[year |-> "2024", baseValue |-> baseValue,
               totalValue |-> baseValue, isBase |-> TRUE]>>
            \o [k \in 1..7 |->
                   [year |-> items[k].year,
                    incrementalValue |-> items[k].value,
                    totalValue |-> cumulative(baseValue, items, k)]]
            \o <<[year |-> "2032",
                  baseValue |-> cumulative(baseValue, items, 7),
                  totalValue |-> cumulative(baseValue, items, 7),
                  isTotal |-> TRUE]>>,
         incrementalOpportunity |-> SumValues(items, 7)] :
            baseValue \in {baseValueOf(fd)}, items \in {incrementalValues(fd)}})

\* Record sets of the waterfall, with the fields it reads
WaterfallInputs ==
    {[fn |-> "waterfallData", records |-> fd] :
        fd \in SeqsUpTo({[year |-> y, marketValueUsd |-> a] :
                            y \in {2024, 2025, 2026, 2031},
                            a \in {0, 1000, 3000}}, MaxRecords)}

\* Record sets with one record in each of the years 2024..2031
WaterfallSeriesInputs ==
    {[fn |-> "waterfallData",
      records |-> [k \in 1..8 |-> [year |-> 2023 + k, marketValueUsd |-> a[k]]]] :
        a \in [1..8 -> {0, 1000, 3000}]}

ComputeWaterfall ==
    /\ calcInput.fn = "waterfallData"
    /\ calcResult = NoCall
    /\ calcResult' = [fn |-> calcInput.fn,
                      out |-> waterfallData(calcInput.records)]
    /\ UNCHANGED <<dataCache, seed, genRuns, log, pagePc, data, loading,
                   filters, changes, calcInput, resolver>>

-----------------------------------------------------------------------------
(* Growth metrics: bubbleChartData (grouped by region) and                *)
(* yoyCagrDataByEntity (one line per segment value)                       *)

\* (Math.pow(endValue / startValue, 1 / years) - 1) * 100, kept as its operands
NoGrowth == [kind |-> "zero"]
Growth(startValue, endValue, span) ==
    [kind |-> "root", ratio |-> Ratio(endValue, startValue), span |-> span]

\* let cagr = 0; if (startValue > 0 && endValue > 0) { cagr = ... }
UnguardedCagr(startValue, endValue) == Growth(startValue, endValue, 2032 - 2025)
bubbleCagr(startValue, endValue) ==
    IF startValue > 0 /\ endValue > 0
    THEN Growth(startValue, endValue, 2032 - 2025)
    ELSE NoGrowth

\* entityData.values.find((_, i) => entityData.years[i] === year) || 0
FirstValueOf(values, yearList, year) ==
    IF \E i \in 1..Len(values) : yearList[i] = year
    THEN values[CHOOSE i \in 1..Len(values) :
                    /\ yearList[i] = year
                    /\ \A j \in 1..(i - 1) : yearList[j] # year]
    ELSE 0

\* The India regions of the region grouping
indiaRegions ==
    {"North India", "South India", "East India", "West India", "Central India"}

\* The computed metrics of one entity of the region grouping
EntityMetrics(fd, entity) ==
    LET rows == SelectSeq(fd, LAMBDA d : d.region = entity)
        values == [i \in 1..Len(rows) |-> rows[i].marketValueUsd]
        yearList == [i \in 1..Len(rows) |-> rows[i].year]
    IN  TheOnly({
            [region |-> entity,
             cagr |-> bubbleCagr(startValue, endValue),
             marketShare |-> percentage(SumRange(values, 1, Len(values)),
                                        allEntitiesTotal),
             incrementalOpportunity |-> endValue - startValue] :
                startValue \in {FirstValueOf(values, yearList, 2025)},
                endValue \in {FirstValueOf(values, yearList, 2032)},
                allEntitiesTotal \in
                    {SumRange([i \in 1..Len(fd) |-> fd[i].marketValueUsd],
                              1, Len(fd))}})

\* entities.map(entity => ...) up to the computed cagr, marketShare and
\* incrementalOpportunity, with no segment type selected
bubbleMetrics(fd) ==
    LET entities ==
            KeysFrom([i \in 1..Len(SelectSeq(fd, LAMBDA d : d.region \in indiaRegions))
                         |-> SelectSeq(fd, LAMBDA d : d.region \in indiaRegions)[i].region], 1)
    IN  [e \in 1..Len(entities) |-> EntityMetrics(fd, entities[e])]

\* yearDataMap of one segment value: year -> summed value
yearDataMap(fd, segmentValue) ==
    [year \in {fd[i].year : i \in {k \in 1..Len(fd) : fd[k].bladeMaterial = segmentValue}} |->
        SumRange([i \in 1..Len(fd) |->
                     IF fd[i].bladeMaterial = segmentValue /\ fd[i].year = year
                     THEN fd[i].marketValueUsd ELSE 0], 1, Len(fd))]

\* yearDataMap.get(year) || 0
ValueAt(map, year) == OrZero(MapGet(map, year))[1]

\* let yoy = 0; if (index > 0) { ... if (previousValue > 0) yoy = ... }
yoyOf(yearList, map, index) ==
    IF index > 1 /\ ValueAt(map, yearList[index - 1]) > 0
    THEN Ratio((ValueAt(map, yearList[index]) - ValueAt(map, yearList[index - 1])) * 100,
               ValueAt(map, yearList[index - 1]))
    ELSE Ratio(0, 1)

\* let cagr = 0; if (index > 0) { if (firstValue > 0 && currentValue > 0) {
\*     if (yearsDiff > 0) cagr = ... } }
cagrOf(yearList, map, index) ==
    IF /\ index > 1
       /\ ValueAt(map, yearList[1]) > 0 /\ ValueAt(map, yearList[index]) > 0
       /\ yearList[index] - yearList[1] > 0
    THEN Growth(ValueAt(map, yearList[1]), ValueAt(map, yearList[index]),
                yearList[index] - yearList[1])
    ELSE NoGrowth

\* One object per year with `${segmentValue}_yoy` and `${segmentValue}_cagr`
YearRow(fd, yearList, segmentValues, index) ==
    [key \in {"year"} \cup {s \o "_yoy" : s \in Range(segmentValues)}
                      \cup {s \o "_cagr" : s \in Range(segmentValues)} |->
        IF key = "year" THEN String(yearList[index])
        ELSE LET s == CHOOSE v \in Range(segmentValues) :
                          key \in {v \o "_yoy", v \o "_cagr"}
             IN  IF key = s \o "_yoy"
                 THEN yoyOf(yearList, yearDataMap(fd, s), index)
                 ELSE cagrOf(yearList, yearDataMap(fd, s), index)]

\* yoyCagrDataByEntity with segmentType = 'bladeMaterial' and no segment value
\* selected: every value found in the data is a line
yoyCagrDataByEntity(fd) ==
    LET allSegmentValues == KeysFrom([i \in 1..Len(fd) |-> fd[i].bladeMaterial], 1)
        yearList == SortYears({fd[i].year : i \in 1..Len(fd)})
    IN  IF Len(allSegmentValues) = 0 \/ Len(yearList) < 2 THEN <<>>
        ELSE <<[label |-> "By Product Form",
                data |-> [y \in 1..Len(yearList) |->
                             YearRow(fd, yearList, allSegmentValues, y)],
                segmentKeys |-> allSegmentValues]>>

\* Record sets of the growth calculators, with the fields they read
BubbleInputs ==
    {[fn |-> "bubbleChartData", records |-> fd] :
        fd \in SeqsUpTo({[year |-> y, region |-> r, marketValueUsd |-> a] :
                            y \in {2025, 2026, 2032}, r \in SharePlaces,
                            a \in {0, 1000, 2000}}, MaxRecords)}

YoyInputs ==
    {[fn |-> "yoyCagrDataByEntity", records |-> fd] :
        fd \in SeqsUpTo({[year |-> y, bladeMaterial |-> s, marketValueUsd |-> a] :
                            y \in {2024, 2025, 2026},
                            s \in {"Creams & Lotions", "Gels & Mousse"},
                            a \in {0, 1000, 2000}}, MaxRecords)}

ComputeBubbleMetrics ==
    /\ calcInput.fn = "bubbleChartData"
    /\ calcResult = NoCall
    /\ calcResult' = [fn |-> calcInput.fn,
                      out |-> bubbleMetrics(calcInput.records)]
    /\ UNCHANGED <<dataCache, seed, genRuns, log, pagePc, data, loading,
                   filters, changes, calcInput, resolver>>

ComputeYoyCagr ==
    /\ calcInput.fn = "yoyCagrDataByEntity"
    /\ calcResult = NoCall
    /\ calcResult' = [fn |-> calcInput.fn,
                      out |-> yoyCagrDataByEntity(calcInput.records)]
    /\ UNCHANGED <<dataCache, seed, genRuns, log, pagePc, data, loading,
                   filters, changes, calcInput, resolver>>

CalcInputs ==
    ShareInputs \cup WaterfallInputs \cup WaterfallSeriesInputs
        \cup BubbleInputs \cup YoyInputs

\* A calculator about to run on one record set of the family
InitCalc ==
    /\ dataCache = NullCache
    /\ seed = 42
    /\ genRuns = 0
    /\ log = <<>>
    /\ pagePc = "unmounted"
    /\ data = <<>>
    /\ loading = TRUE
    /\ filters = InitialFilters
    /\ changes = 0
    /\ calcInput \in CalcInputs
    /\ calcResult = NoCall
    /\ resolver = NoCall

NextCalc ==
    \/ ComputeRegionCountryPercentage
    \/ ComputeWaterfall
    \/ ComputeBubbleMetrics
    \/ ComputeYoyCagr

SpecCalc == InitCalc /\ [][NextCalc]_vars

-----------------------------------------------------------------------------
(* C11 *)

ShareRan == calcResult.fn = "regionCountryPercentageChartData"

\* Output entries of one (year, region) group
GroupEntries(out, year, region) ==
    SelectSeq(out, LAMBDA e : e.year = year /\ e.region = region)

\* Exact sum of the ratios s[1..n], as a ratio
RECURSIVE RatioSum(_, _)
RatioSum(s, n) ==
    IF n = 0 THEN Ratio(0, 1)
    ELSE LET rest == RatioSum(s, n - 1)
         IN  Ratio(rest.num * s[n].value.den + s[n].value.num * rest.den,
                   rest.den * s[n].value.den)

\* Sum of one field over the input records of a (year, region) group
GroupTotal(fd, year, region, field) ==
    SumRange([i \in 1..Len(fd) |->
                 IF fd[i].year = year /\ fd[i].region = region
                 THEN fd[i][field] ELSE 0], 1, Len(fd))

\* C11: in value mode, for every (year, region) present in the output of the
\* region/country breakdown, the country values sum to 100 when the region's
\* year total is non-zero and every country value is 0 when it is 0, and no
\* value is the result of a division by zero; in volume mode each value is the
\* raw summed volume of the country.
C11_PercentagesSumTo100 ==
    ShareRan =>
        \A fd \in {calcInput.records} : \A out \in {calcResult.out} :
            \A e \in Range(out) :
                /\ e.value.den # 0
                /\ \A g \in {GroupEntries(out, e.year, e.region)} :
                   \A total \in {GroupTotal(fd, e.year, e.region, "marketValueUsd")} :
                       IF calcInput.filters.marketEvaluation = "By Volume"
                       THEN /\ e.value.den = 1
                            /\ e.value.num =
                                 SumRange([i \in 1..Len(fd) |->
                                     IF fd[i].year = e.year /\ fd[i].region = e.region
                                            /\ fd[i].country = e.country
                                     THEN fd[i].volumeUnits ELSE 0], 1, Len(fd))
                       ELSE IF total # 0
                       THEN \A s \in {RatioSum(g, Len(g))} : s.num = 100 * s.den
                       ELSE e.value.num = 0

\* Value mode, a region with two countries and a non-zero year total, neither
\* share 0
C11_Witness ==
    /\ ShareRan
    /\ calcInput.filters.marketEvaluation = "By Value"
    /\ \E e1, e2 \in Range(calcResult.out) :
           /\ e1.year = e2.year /\ e1.region = e2.region
           /\ e1.country # e2.country
           /\ e1.value.num > 0 /\ e2.value.num > 0
           /\ e1.value.num # e2.value.num

-----------------------------------------------------------------------------
(* C12, C13 *)

WaterfallRan == calcResult.fn = "waterfallData"

\* C12: for each year 2025..2031 the waterfall increment is the current
\* year's total minus the previous year's total when both totals are positive,
\* and otherwise the year's entry of the default increment table scaled by
\* baseValue / 57159; on a record set that is empty or holds only year 2024
\* all seven increments are the scaled defaults and none is 0.
C12_WaterfallFallback ==
    WaterfallRan =>
        \A fd \in {calcInput.records} : \A chart \in {calcResult.out.chartData} :
            /\ \A k \in 1..7 :
                   \A cur \in {YearTotal(fd, 2024 + k)},
                      prev \in {YearTotal(fd, 2023 + k)} :
                       chart[k + 1].incrementalValue =
                           IF cur > 0 /\ prev > 0 THEN Amount(cur - prev, 0)
                           ELSE Amount(0, DefaultIncrements[k])
            /\ (\A i \in 1..Len(fd) : fd[i].year = 2024) =>
                   \A k \in 1..7 :
                       /\ chart[k + 1].incrementalValue.units = 0
                       /\ chart[k + 1].incrementalValue.tenths = DefaultIncrements[k]
                       /\ DefaultIncrements[k] > 0
                       /\ chart[1].baseValue.units > 0
                       /\ chart[1].baseValue.tenths = 0

\* One increment is a difference of two positive year totals and another is a
\* scaled default
C12_Witness ==
    /\ WaterfallRan
    /\ YearTotal(calcInput.records, 2024) > 0
    /\ YearTotal(calcInput.records, 2025) > YearTotal(calcInput.records, 2024)
    /\ calcResult.out.chartData[2].incrementalValue.units > 0
    /\ calcResult.out.chartData[3].incrementalValue.tenths > 0

\* C13: the waterfall series has exactly 9 entries for the years 2024..2032
\* in ascending order; the first is the only base entry and the last the only
\* total entry; each intermediate running total is the previous running total
\* plus the entry's own increment; the total entry is the base value plus the
\* sum of the seven increments, which is the reported incremental opportunity.
C13_WaterfallShape ==
    WaterfallRan =>
        \A chart \in {calcResult.out.chartData} :
            /\ Len(chart) = 9
            /\ \A k \in 1..9 : chart[k].year = String(2023 + k)
            /\ \A k \in 1..9 : ("isBase" \in DOMAIN chart[k]) <=> (k = 1)
            /\ \A k \in 1..9 : ("isTotal" \in DOMAIN chart[k]) <=> (k = 9)
            /\ chart[1].isBase /\ chart[9].isTotal
            /\ chart[1].totalValue = chart[1].baseValue
            /\ \A k \in 2..8 :
                   chart[k].totalValue =
                       Plus(chart[k - 1].totalValue, chart[k].incrementalValue)
            /\ \A sum \in {SumValues([k \in 1..7 |->
                              [value |-> chart[k + 1].incrementalValue]], 7)} :
                   /\ chart[9].totalValue = Plus(chart[1].baseValue, sum)
                   /\ chart[9].baseValue = chart[9].totalValue
                   /\ calcResult.out.incrementalOpportunity = sum

\* A series on data of two years: a computed base, a computed increment, then
\* scaled defaults
C13_Witness ==
    /\ WaterfallRan
    /\ Len(calcInput.records) = 2
    /\ calcResult.out.chartData[1].baseValue.units < DefaultBaseValue * 1000
    /\ calcResult.out.chartData[2].incrementalValue.tenths = 0
    /\ calcResult.out.chartData[9].totalValue.tenths > 0
    /\ calcResult.out.incrementalOpportunity.units # 0

-----------------------------------------------------------------------------
(* C14 *)

BubbleRan == calcResult.fn = "bubbleChartData"
YoyRan == calcResult.fn = "yoyCagrDataByEntity"

\* A computed CAGR is 0, or a root of a positive ratio over a positive span
SoundGrowth(c) ==
    c # NoGrowth => c.ratio.den > 0 /\ c.ratio.num > 0 /\ c.span > 0

\* Start and end value of a region in the attractiveness calculator
EndpointOf(fd, region, year) ==
    LET rows == SelectSeq(fd, LAMBDA d : d.region = region)
    IN  FirstValueOf([i \in 1..Len(rows) |-> rows[i].marketValueUsd],
                     [i \in 1..Len(rows) |-> rows[i].year], year)

\* Total of a segment value in one year in the YoY/CAGR calculator
SegmentYearTotal(fd, s, year) ==
    SumRange([i \in 1..Len(fd) |->
                 IF fd[i].bladeMaterial = s /\ fd[i].year = year
                 THEN fd[i].marketValueUsd ELSE 0], 1, Len(fd))

\* The distinct years of a record set, ascending
YearsIn(fd) == SortYears({fd[i].year : i \in 1..Len(fd)})

\* C14: every CAGR computed by the attractiveness and the YoY/CAGR calculator
\* is 0 whenever the start value is 0, the end value is 0 or the year span is
\* not positive, and is never the result of a division by zero or of a root
\* of a non-positive ratio; YoY is 0 whenever the previous value is not
\* positive.
C14_GrowthBoundary ==
    /\ BubbleRan =>
           \A fd \in {calcInput.records} : \A e \in Range(calcResult.out) :
               /\ SoundGrowth(e.cagr)
               /\ e.marketShare.den # 0
               /\ (EndpointOf(fd, e.region, 2025) = 0
                      \/ EndpointOf(fd, e.region, 2032) = 0) => e.cagr = NoGrowth
    /\ (YoyRan /\ calcResult.out # <<>>) =>
           \A fd \in {calcInput.records} : \A rows \in {calcResult.out[1].data} :
               \A y \in 1..Len(rows) : \A s \in Range(calcResult.out[1].segmentKeys) :
                   \A yoy \in {rows[y][s \o "_yoy"]}, cagr \in {rows[y][s \o "_cagr"]},
                      first \in {SegmentYearTotal(fd, s, YearsIn(fd)[1])},
                      current \in {SegmentYearTotal(fd, s, YearsIn(fd)[y])} :
                       /\ SoundGrowth(cagr)
                       /\ yoy.den # 0
                       /\ (first = 0 \/ current = 0 \/ y = 1) => cagr = NoGrowth
                       /\ y = 1 => yoy = Ratio(0, 1)
                       /\ y > 1 =>
                              (SegmentYearTotal(fd, s, YearsIn(fd)[y - 1]) <= 0
                                   => yoy = Ratio(0, 1))

\* A region whose 2025 value is 0 and whose 2032 value is positive: the ratio
\* of the unguarded formula would have a zero denominator
C14_Witness ==
    /\ BubbleRan
    /\ \E e \in Range(calcResult.out) :
           /\ EndpointOf(calcInput.records, e.region, 2025) = 0
           /\ EndpointOf(calcInput.records, e.region, 2032) > 0
           /\ e.cagr = NoGrowth
           /\ e.incrementalOpportunity > 0

-----------------------------------------------------------------------------
(* Bubble layout resolvers: separateBubbleData (page) and separateBubbles *)
(* (BubbleChart component)                                                *)

\* Positions are kept on a grid of 1/Grid index units, sizes in hundredths of
\* a pixel; every product is rounded to the grid (the source rounds every
\* product to an IEEE double)
Grid == 1000

\* const maxIterations = 200
maxIterations == 200

Abs(x) == IF x < 0 THEN 0 - x ELSE x
Max(a, b) == IF a > b THEN a ELSE b
Min(a, b) == IF a < b THEN a ELSE b

\* a / b rounded to the nearest integer, b > 0
Round(a, b) == (a + b \div 2) \div b

\* Math.max(...xs), Math.min(...xs) of a non-empty set
MaxOf(S) == CHOOSE x \in S : \A y \in S : y <= x
MinOf(S) == CHOOSE x \in S : \A y \in S : x <= y

\* Math.sqrt, rounded to the nearest integer
RECURSIVE SqrtBetween(_, _, _)
SqrtBetween(n, lo, hi) ==
    IF lo = hi THEN lo
    ELSE LET mid == (lo + hi + 1) \div 2
         IN  IF mid * mid <= n THEN SqrtBetween(n, mid, hi)
             ELSE SqrtBetween(n, lo, mid - 1)

Sqrt(n) ==
    LET r == SqrtBetween(n, 0, 46340)
    IN  IF n - r * r > r THEN r + 1 ELSE r

\* Math.cos(angle), Math.sin(angle) of the angles Math.random() * Math.PI * 2
\* the model draws, in thousandths
Directions ==
    {<<1000, 0>>, <<0, 1000>>, <<-1000, 0>>, <<0, -1000>>,
     <<600, 800>>, <<-800, -600>>}

\* sizeRange > 0 ? 30 + ((opp - minOpportunity) / sizeRange) * 170 : 100
FixedSize(opp, minOpportunity, sizeRange) == 10000
getBubbleSize(opp, minOpportunity, sizeRange) ==
    IF sizeRange > 0
    THEN 3000 + Round((opp - minOpportunity) * 17000, sizeRange)
    ELSE 10000

\* max - min || 1
DataRange(S) == IF MaxOf(S) - MinOf(S) = 0 THEN Grid ELSE MaxOf(S) - MinOf(S)

\* Math.max(0, Math.min(10, v))
Clamp(v) == Max(0, Min(10 * Grid, v))

\* data.map(d => ({ ...d })): fresh objects, so a write to the copy does not
\* reach the caller's objects
SameObjects(bubbles) == [objects |-> bubbles, aliased |-> TRUE]
CopyObjects(bubbles) == [objects |-> bubbles, aliased |-> FALSE]

\* The locals of separateBubbleData before its loop
separateBubbleDataLocals(bubbles) ==
    LET opps == {bubbles[k].incrementalOpportunity : k \in 1..Len(bubbles)}
        copy == CopyObjects(bubbles)
    IN  [fn |-> "separateBubbleData",
         pc |-> "pair",
         given |-> bubbles,
         bubbles |-> bubbles,
         separated |-> copy.objects,
         aliased |-> copy.aliased,
         sizes |-> [k \in 1..Len(bubbles) |->
                       getBubbleSize(bubbles[k].incrementalOpportunity,
                                     MinOf(opps), MaxOf(opps) - MinOf(opps))],
         pixelToDataX |->
             Round(DataRange({bubbles[k].cagrIndex : k \in 1..Len(bubbles)}) * 1000, 450),
         pixelToDataY |->
             Round(DataRange({bubbles[k].marketShareIndex : k \in 1..Len(bubbles)}) * 1000, 300),
         iteration |-> 0, i |-> 1, j |-> 2,
         hasOverlap |-> FALSE, maxOverlap |-> 0, adjusted |-> FALSE]

\* A write to separated[k]: it reaches the input objects when they are shared
MoveTo(r, k, x, y) ==
    LET moved == [r.separated EXCEPT ![k].cagrIndex = x,
                                     ![k].marketShareIndex = y]
    IN  [r EXCEPT !.separated = moved,
                  !.bubbles = IF r.aliased THEN moved ELSE r.bubbles]

\* The exact-overlap branch of separateBubbleData: both entities pushed along
\* the drawn angle, then clamped
NoPush(r, pushX, pushY) == r
PushApart(r, pushX, pushY) ==
    MoveTo(MoveTo(r, r.i,
               Clamp(r.separated[r.i].cagrIndex - pushX),
               Clamp(r.separated[r.i].marketShareIndex - pushY)),
           r.j,
           Clamp(r.separated[r.j].cagrIndex + pushX),
           Clamp(r.separated[r.j].marketShareIndex + pushY))

\* The body of the inner loop of separateBubbleData for the pair (r.i, r.j)
separateBubbleDataPair(r, direction) ==
    LET bubble1 == r.separated[r.i]
        bubble2 == r.separated[r.j]
        dx == bubble2.cagrIndex - bubble1.cagrIndex
        dy == bubble2.marketShareIndex - bubble1.marketShareIndex
        distance == Sqrt(dx * dx + dy * dy)
        size1 == r.sizes[r.i]
        size2 == r.sizes[r.j]
        pixelToData == Max(r.pixelToDataX, r.pixelToDataY)
        \* (radius1Data + radius2Data) * minSeparationFactor
        requiredDistance == Round(Round((size1 + size2) * pixelToData, 200000) * 16, 10)
        overlap == requiredDistance - distance
        \* unit * separationAmount, damping 0.5
        alongX == Round(dx * overlap, 2 * distance)
        alongY == Round(dy * overlap, 2 * distance)
        totalSize == size1 + size2
        \* avgRadius * minSeparationFactor * 0.5
        pushDistance == Round(Round((size1 + size2) * pixelToData, 400000) * 8, 10)
        pushX == Round(direction[1] * pushDistance, 1000)
        pushY == Round(direction[2] * pushDistance, 1000)
    IN  IF distance < requiredDistance /\ distance * 10000 > Grid
        THEN [MoveTo(MoveTo(r, r.i,
                         Clamp(bubble1.cagrIndex - Round(alongX * size2, totalSize)),
                         Clamp(bubble1.marketShareIndex - Round(alongY * size2, totalSize))),
                     r.j,
                     Clamp(bubble2.cagrIndex + Round(alongX * size1, totalSize)),
                     Clamp(bubble2.marketShareIndex + Round(alongY * size1, totalSize)))
                 EXCEPT !.hasOverlap = TRUE, !.adjusted = TRUE]
        ELSE IF distance = 0 \/ (Abs(dx) * 1000 < Grid /\ Abs(dy) * 1000 < Grid)
        THEN [PushApart(r, pushX, pushY)
                 EXCEPT !.hasOverlap = TRUE, !.adjusted = TRUE]
        ELSE [r EXCEPT !.adjusted = FALSE]

\* BubbleChart transformedData up to initialData: sorted by incremental
\* opportunity, largest first (Array.prototype.sort is stable), each item with
\* its normalized size
RECURSIVE SortByOpportunity(_)
SortByOpportunity(items) ==
    IF items = <<>> THEN <<>>
    ELSE LET top == CHOOSE k \in 1..Len(items) :
                        /\ \A l \in 1..Len(items) :
                               items[l].incrementalOpportunity
                                   <= items[k].incrementalOpportunity
                        /\ \A l \in 1..(k - 1) :
                               items[l].incrementalOpportunity
                                   < items[k].incrementalOpportunity
         IN  <<items[top]>>
                 \o SortByOpportunity([l \in 1..(Len(items) - 1) |->
                        IF l < top THEN items[l] ELSE items[l + 1]])

initialData(items) ==
    LET opps == {items[k].incrementalOpportunity : k \in 1..Len(items)}
        sortedData == SortByOpportunity(items)
    IN  [k \in 1..Len(items) |->
            [region |-> sortedData[k].region,
             cagrIndex |-> sortedData[k].cagrIndex,
             marketShareIndex |-> sortedData[k].marketShareIndex,
             incrementalOpportunity |-> sortedData[k].incrementalOpportunity,
             size |-> getBubbleSize(sortedData[k].incrementalOpportunity,
                                    MinOf(opps), MaxOf(opps) - MinOf(opps))]]

\* The locals of separateBubbles before its loop
separateBubblesLocals(bubbles) ==
    LET copy == CopyObjects(bubbles)
    IN  [fn |-> "separateBubbles",
         pc |-> "pair",
         given |-> bubbles,
         bubbles |-> bubbles,
         separated |-> copy.objects,
         aliased |-> copy.aliased,
         sizes |-> [k \in 1..Len(bubbles) |-> bubbles[k].size],
         pixelToDataX |->
             Round(DataRange({bubbles[k].cagrIndex : k \in 1..Len(bubbles)}) * 1000, 450),
         pixelToDataY |->
             Round(DataRange({bubbles[k].marketShareIndex : k \in 1..Len(bubbles)}) * 1000, 300),
         iteration |-> 0, i |-> 1, j |-> 2,
         hasOverlap |-> FALSE, maxOverlap |-> 0, adjusted |-> FALSE]

\* Math.max(minDamping, initialDamping * (1 - iteration / maxIterations)),
\* in thousandths
dampingAt(iteration) == Max(200, Round(800 * (maxIterations - iteration), maxIterations))

\* The body of the inner loop of separateBubbles for the pair (r.i, r.j)
separateBubblesPair(r, direction) ==
    LET bubble1 == r.separated[r.i]
        bubble2 == r.separated[r.j]
        damping == dampingAt(r.iteration)
        dx == bubble2.cagrIndex - bubble1.cagrIndex
        dy == bubble2.marketShareIndex - bubble1.marketShareIndex
        distance == Sqrt(dx * dx + dy * dy)
        \* getRadiusInDataUnits
        radius1X == Round(r.sizes[r.i] * r.pixelToDataX, 200000)
        radius1Y == Round(r.sizes[r.i] * r.pixelToDataY, 200000)
        radius2X == Round(r.sizes[r.j] * r.pixelToDataX, 200000)
        radius2Y == Round(r.sizes[r.j] * r.pixelToDataY, 200000)
        requiredDistanceX == Round((radius1X + radius2X) * 15, 10)
        requiredDistanceY == Round((radius1Y + radius2Y) * 15, 10)
        overlapX == Max(0, requiredDistanceX - Abs(dx))
        overlapY == Max(0, requiredDistanceY - Abs(dy))
        isOverlapping == overlapX > 0 /\ overlapY > 0
        avgRadius1 == Round(radius1X + radius1Y, 2)
        avgRadius2 == Round(radius2X + radius2Y, 2)
        requiredDistanceEuclidean == Round((avgRadius1 + avgRadius2) * 15, 10)
        isOverlappingEuclidean ==
            distance < requiredDistanceEuclidean /\ distance * 10000 > Grid
        overlap == Max(requiredDistanceEuclidean - distance,
                       Sqrt(overlapX * overlapX + overlapY * overlapY))
        \* normalized * separationAmount; distance > 0.0001 on this branch, so
        \* the unit vector is (dx, dy) / distance
        alongX == Round(Round(dx * overlap, distance) * damping, 1000)
        alongY == Round(Round(dy * overlap, distance) * damping, 1000)
        totalSize == r.sizes[r.i] + r.sizes[r.j]
        \* avgRadius * minSeparationFactor * damping * 2
        pushDistance == Round(Round(avgRadius1 + avgRadius2, 2) * 3 * damping, 1000)
        pushX == Round(direction[1] * pushDistance, 1000)
        pushY == Round(direction[2] * pushDistance, 1000)
    IN  IF isOverlappingEuclidean \/ (isOverlapping /\ distance * 10000 > Grid)
        THEN [MoveTo(MoveTo(r, r.i,
                         bubble1.cagrIndex - Round(alongX * r.sizes[r.j], totalSize),
                         bubble1.marketShareIndex - Round(alongY * r.sizes[r.j], totalSize)),
                     r.j,
                     bubble2.cagrIndex + Round(alongX * r.sizes[r.i], totalSize),
                     bubble2.marketShareIndex + Round(alongY * r.sizes[r.i], totalSize))
                 EXCEPT !.hasOverlap = TRUE, !.adjusted = TRUE,
                        !.maxOverlap = Max(r.maxOverlap, overlap)]
        ELSE IF distance = 0 \/ (Abs(dx) * 10000 < Grid /\ Abs(dy) * 10000 < Grid)
        THEN [MoveTo(MoveTo(r, r.i,
                         bubble1.cagrIndex - pushX,
                         bubble1.marketShareIndex - pushY),
                     r.j,
                     bubble2.cagrIndex + pushX,
                     bubble2.marketShareIndex + pushY)
                 EXCEPT !.hasOverlap = TRUE, !.adjusted = TRUE]
        ELSE [r EXCEPT !.adjusted = FALSE]

\* The pair after (i, j) in "for i ... for j = i + 1 ...", or the end of the pass
NextPair(r) ==
    IF r.j < Len(r.separated) THEN [r EXCEPT !.j = r.j + 1]
    ELSE IF r.i + 1 < Len(r.separated)
    THEN [r EXCEPT !.i = r.i + 1, !.j = r.i + 2]
    ELSE [r EXCEPT !.pc = "endOfPass"]

\* if (!hasOverlap) break            (separateBubbleData)
\* if (!hasOverlap || maxOverlap < 0.0001) break   (separateBubbles)
Breaks(r) ==
    IF r.fn = "separateBubbleData" THEN ~r.hasOverlap
    ELSE ~r.hasOverlap \/ r.maxOverlap * 10000 < Grid

\* Layouts handed to the resolvers, on the grid
Entity(region, cagrIndex, marketShareIndex, incrementalOpportunity) ==
    [region |-> region, cagrIndex |-> cagrIndex,
     marketShareIndex |-> marketShareIndex,
     incrementalOpportunity |-> incrementalOpportunity]

\* defaultData of bubbleChartData
defaultData ==
    <<Entity("North India", 5000, 4000, 490),
      Entity("South India", 6000, 3000, 560),
      Entity("East India", 2500, 1200, 300),
      Entity("West India", 4500, 3500, 420),
      Entity("Central India", 3500, 2500, 380)>>

Layouts ==
    {defaultData,
     \* one entity, returned as it is
     <<Entity("North India", 5000, 4000, 490)>>,
     \* three entities sharing the position (5, 5)
     <<Entity("North India", 5000, 5000, 250),
       Entity("South India", 5000, 5000, 400),
       Entity("East India", 5000, 5000, 650)>>,
     \* two entities far apart
     <<Entity("North India", 2000, 2000, 300),
       Entity("South India", 8000, 8000, 600)>>,
     \* two entities sharing the corner (0, 0)
     <<Entity("North India", 0, 0, 490),
       Entity("South India", 0, 0, 490)>>,
     \* two overlapping entities at the left edge
     <<Entity("North India", 0, 5000, 490),
       Entity("South India", 200, 5000, 560)>>,
     \* a large entity and, a little apart from it, two that share a position
     <<Entity("North India", 5000, 5000, 650),
       Entity("South India", 5500, 5000, 400),
       Entity("East India", 5500, 5000, 250)>>}

\* separateBubbleData(data) is called
StartSeparateBubbleData ==
    /\ resolver = NoCall
    /\ \E bubbles \in Layouts :
           resolver' =
               IF Len(bubbles) <= 1
               THEN [fn |-> "separateBubbleData", pc |-> "returned",
                     given |-> bubbles, bubbles |-> bubbles, separated |-> bubbles,
                     aliased |-> TRUE, iteration |-> 0, hasOverlap |-> FALSE,
                     maxOverlap |-> 0, adjusted |-> FALSE]
               ELSE separateBubbleDataLocals(bubbles)
    /\ UNCHANGED <<dataCache, seed, genRuns, log, pagePc, data, loading,
                   filters, changes, calcInput, calcResult>>

\* The BubbleChart component computes initialData and calls separateBubbles
StartSeparateBubbles ==
    /\ resolver = NoCall
    /\ \E data0 \in Layouts : \E bubbles \in {initialData(data0)} :
           resolver' =
               IF Len(bubbles) <= 1
               THEN [fn |-> "separateBubbles", pc |-> "returned",
                     given |-> bubbles, bubbles |-> bubbles, separated |-> bubbles,
                     aliased |-> TRUE, iteration |-> 0, hasOverlap |-> FALSE,
                     maxOverlap |-> 0, adjusted |-> FALSE]
               ELSE separateBubblesLocals(bubbles)
    /\ UNCHANGED <<dataCache, seed, genRuns, log, pagePc, data, loading,
                   filters, changes, calcInput, calcResult>>

\* One pair of the inner loops; Math.random() is drawn only when the pair
\* takes the exact-overlap branch
PairStep ==
    /\ resolver # NoCall
    /\ resolver.pc = "pair"
    /\ \E direction \in Directions :
           resolver' =
               NextPair(IF resolver.fn = "separateBubbleData"
                        THEN separateBubbleDataPair(resolver, direction)
                        ELSE separateBubblesPair(resolver, direction))
    /\ UNCHANGED <<dataCache, seed, genRuns, log, pagePc, data, loading,
                   filters, changes, calcInput, calcResult>>

\* The end of one pass: break, or the next iteration, or the ceiling
EndOfPass ==
    /\ resolver # NoCall
    /\ resolver.pc = "endOfPass"
    /\ resolver' =
           IF Breaks(resolver) \/ resolver.iteration + 1 >= maxIterations
           THEN [resolver EXCEPT !.pc = "returned",
                                 !.iteration = resolver.iteration + 1]
           ELSE [resolver EXCEPT !.pc = "pair",
                                 !.iteration = resolver.iteration + 1,
                                 !.i = 1, !.j = 2,
                                 !.hasOverlap = FALSE, !.maxOverlap = 0]
    /\ UNCHANGED <<dataCache, seed, genRuns, log, pagePc, data, loading,
                   filters, changes, calcInput, calcResult>>

NextResolver ==
    \/ StartSeparateBubbleData
    \/ StartSeparateBubbles
    \/ PairStep
    \/ EndOfPass

SpecResolver == Init /\ [][NextResolver]_vars

-----------------------------------------------------------------------------
(* C15 .. C18, C20: one run of a resolver *)

Called == resolver # NoCall
Returned == resolver # NoCall /\ resolver.pc = "returned"

\* Every field of an entity but its two coordinates
Identity(b) ==
    [f \in DOMAIN b \ {"cagrIndex", "marketShareIndex"} |-> b[f]]

\* C15: a resolver's output has the same number of entities in the same order
\* as its input, each with unchanged label and incremental opportunity; only
\* cagrIndex and marketShareIndex may differ; the input array and its objects
\* are not modified.
C15_IdentitiesPreserved ==
    Called =>
        /\ Len(resolver.separated) = Len(resolver.given)
        /\ \A k \in 1..Len(resolver.given) :
               /\ DOMAIN resolver.separated[k] = DOMAIN resolver.given[k]
               /\ Identity(resolver.separated[k]) = Identity(resolver.given[k])
               /\ resolver.separated[k].region = resolver.given[k].region
               /\ resolver.separated[k].incrementalOpportunity
                      = resolver.given[k].incrementalOpportunity
        /\ resolver.bubbles = resolver.given

\* A returned layout in which an entity has moved
C15_Witness ==
    /\ Returned
    /\ \E k \in 1..Len(resolver.given) :
           resolver.separated[k].cagrIndex # resolver.given[k].cagrIndex

\* The resolver's own overlap test on the pair (i, j) of a layout: the pair
\* would be adjusted by the body of the inner loop
Overlapping(r, i, j) ==
    \A d \in {CHOOSE d \in Directions : TRUE} :
        IF r.fn = "separateBubbleData"
        THEN separateBubbleDataPair([r EXCEPT !.i = i, !.j = j], d).adjusted
        ELSE separateBubblesPair([r EXCEPT !.i = i, !.j = j], d).adjusted

SomePairOverlaps(r) ==
    \E i, j \in 1..Len(r.separated) : i < j /\ Overlapping(r, i, j)

\* C16: whenever a resolver returns before exhausting its 200-pass ceiling,
\* no pair of the returned layout satisfies the resolver's own overlap test
\* (centre distance at least the sum of the radii times the separation
\* factor); for the page-level resolver and for the chart component's.
C16_NoOverlapOnEarlyReturn ==
    (Returned /\ Len(resolver.given) > 1 /\ Breaks(resolver)) =>
        ~SomePairOverlaps(resolver)

\* The part of C16 that holds: the page-level resolver
PageNoOverlapOnEarlyReturn ==
    (Returned /\ resolver.fn = "separateBubbleData") =>
        C16_NoOverlapOnEarlyReturn

InRange(v) == 0 <= v /\ v <= 10 * Grid

\* C17: given entities whose cagrIndex and marketShareIndex are in [0,10],
\* after every adjustment step of a resolver, and so in the returned layout,
\* every cagrIndex and marketShareIndex is in [0,10]; for the page-level
\* resolver and for the chart component's.
C17_IndicesStayInRange ==
    (Called /\ \A k \in 1..Len(resolver.given) :
                   /\ InRange(resolver.given[k].cagrIndex)
                   /\ InRange(resolver.given[k].marketShareIndex)) =>
        \A k \in 1..Len(resolver.separated) :
            /\ InRange(resolver.separated[k].cagrIndex)
            /\ InRange(resolver.separated[k].marketShareIndex)

\* The part of C17 that holds: the page-level resolver
PageIndicesStayInRange ==
    (Called /\ resolver.fn = "separateBubbleData") => C17_IndicesStayInRange

\* C18: a resolver performs at most 200 passes over the unordered pairs,
\* stops at the end of the first pass in which no pair overlapped, and
\* otherwise returns the current layout after the 200th pass, for every input
\* including entities that all share one position.
C18_StopsAtFirstQuietPass ==
    /\ Called => resolver.iteration <= maxIterations
    /\ (Called /\ resolver.pc = "pair") => resolver.iteration < maxIterations
    /\ (Returned /\ Len(resolver.given) > 1) =>
           \/ ~resolver.hasOverlap
           \/ resolver.iteration = maxIterations

\* The part of C18 that holds: the page-level resolver
PageStopsAtFirstQuietPass ==
    (Called /\ resolver.fn = "separateBubbleData") => C18_StopsAtFirstQuietPass

\* The three entities of the coincident-start scenario
ThreeAtCentre ==
    <<Entity("North India", 5000, 5000, 250),
      Entity("South India", 5000, 5000, 400),
      Entity("East India", 5000, 5000, 650)>>

\* C20: for 3 entities with opportunities 250, 400 and 650 that all start at
\* (5,5), after the page-level resolver returns no two entities have exactly
\* equal final positions, for every choice of the push angles.
C20_CoincidentStartSeparated ==
    (Returned /\ resolver.fn = "separateBubbleData"
              /\ resolver.given = ThreeAtCentre) =>
        \A i, j \in 1..3 :
            i # j =>
                \/ resolver.separated[i].cagrIndex # resolver.separated[j].cagrIndex
                \/ resolver.separated[i].marketShareIndex
                       # resolver.separated[j].marketShareIndex

\* The scenario has run to its return, pushed along an oblique angle
C20_Witness ==
    /\ Returned
    /\ resolver.fn = "separateBubbleData"
    /\ resolver.given = ThreeAtCentre
    /\ resolver.separated[1].cagrIndex # 5000
    /\ resolver.separated[1].marketShareIndex # 5000

-----------------------------------------------------------------------------
(* Two runs of a resolver on the same entities *)

\* The memo is evaluated again on the same entities: the first layout is kept
\* for comparison and the resolver starts over
RunAgain ==
    /\ resolver # NoCall
    /\ resolver.pc = "returned"
    /\ calcResult = NoCall
    /\ calcResult' = [fn |-> resolver.fn, given |-> resolver.given,
                      out |-> resolver.separated]
    /\ resolver' =
           IF Len(resolver.given) <= 1 THEN resolver
           ELSE IF resolver.fn = "separateBubbleData"
           THEN separateBubbleDataLocals(resolver.given)
           ELSE separateBubblesLocals(resolver.given)
    /\ UNCHANGED <<dataCache, seed, genRuns, log, pagePc, data, loading,
                   filters, changes, calcInput>>

NextRerun ==
    \/ StartSeparateBubbleData
    \/ StartSeparateBubbles
    \/ PairStep
    \/ EndOfPass
    \/ RunAgain

SpecRerun == Init /\ [][NextRerun]_vars

\* C19: two runs of a resolver on the same entities in the same order with
\* the same input values return identical positions for every entity,
\* including when two or more entities start at the same position.
C19_RunsAgree ==
    (Returned /\ calcResult # NoCall) =>
        /\ calcResult.given = resolver.given
        /\ calcResult.out = resolver.separated

\* The part of C19 that holds: runs in which no pair was ever at one position
\* (the second run of the default regions returns the first run's layout)
RunsAgreeOnDefaultData ==
    (Returned /\ calcResult # NoCall /\ resolver.given = defaultData) =>
        calcResult.out = resolver.separated

-----------------------------------------------------------------------------
(* C26: the rendered sizes, in hundredths of a pixel *)

\* The opportunities and sizes a called resolver works with: the page's
\* resolver computes its sizes after the length check, the component's are
\* computed by initialData before separateBubbles is called
OpportunitiesOf(r) ==
    {r.bubbles[k].incrementalOpportunity : k \in 1..Len(r.bubbles)}

SizeOf(r, k) ==
    IF r.fn = "separateBubbles" THEN r.bubbles[k].size ELSE r.sizes[k]

Sized(r) == r.fn = "separateBubbles" \/ Len(r.bubbles) > 1

\* C26: whenever a resolver has computed its sizes: with max > min the entity
\* of minimum opportunity has size 30, the one of maximum opportunity has size
\* 200, every size is 30 + (opportunity - min) / (max - min) x 170 (to the
\* hundredth of a pixel) and a strictly larger opportunity has a strictly
\* larger size; with all opportunities equal every size is 100
C26_BubbleSizing ==
    (Called /\ Sized(resolver)) =>
        LET r == resolver
            lo == MinOf(OpportunitiesOf(r))
            hi == MaxOf(OpportunitiesOf(r))
        IN  \A k \in 1..Len(r.bubbles) :
                LET opp == r.bubbles[k].incrementalOpportunity
                IN  IF hi > lo
                    THEN /\ opp = lo => SizeOf(r, k) = 3000
                         /\ opp = hi => SizeOf(r, k) = 20000
                         /\ 2 * Abs((SizeOf(r, k) - 3000) * (hi - lo)
                                        - (opp - lo) * 17000) <= hi - lo
                         /\ \A l \in 1..Len(r.bubbles) :
                                r.bubbles[l].incrementalOpportunity > opp
                                    => SizeOf(r, l) > SizeOf(r, k)
                    ELSE SizeOf(r, k) = 10000

\* Witness: a resolver was called on three entities of three different
\* opportunities, so a size strictly between 30 and 200 was computed
C26_Witness ==
    /\ Called /\ Sized(resolver)
    /\ Len(resolver.bubbles) >= 3
    /\ \E k \in 1..Len(resolver.bubbles) :
           /\ SizeOf(resolver, k) > 3000
           /\ SizeOf(resolver, k) < 20000

-----------------------------------------------------------------------------
(* C28: the endpoints of the attractiveness calculator *)

\* Total market value of all the records of one region in one year
RegionYearTotal(fd, region, year) ==
    SumRange([i \in 1..Len(fd) |->
                 IF fd[i].region = region /\ fd[i].year = year
                 THEN fd[i].marketValueUsd ELSE 0], 1, Len(fd))

\* C28: the computed incremental opportunity of every entity is the entity's
\* total market value over all its 2032 records minus its total over all its
\* 2025 records, and its CAGR is computed from those two totals
C28_OpportunityIsTotalGrowth ==
    BubbleRan =>
        \A fd \in {calcInput.records} : \A e \in Range(calcResult.out) :
            /\ e.incrementalOpportunity =
                   RegionYearTotal(fd, e.region, 2032)
                       - RegionYearTotal(fd, e.region, 2025)
            /\ e.cagr = bubbleCagr(RegionYearTotal(fd, e.region, 2025),
                                   RegionYearTotal(fd, e.region, 2032))

-----------------------------------------------------------------------------
(* C30: the waterfall on data of every year *)

\* The filtered record set has a positive total in every year 2024..2031
EveryYearPositive(fd) == \A year \in 2024..2031 : YearTotal(fd, year) > 0

\* C30: when the record set has a positive total market value in every year
\* 2024..2031, the running total of each year's entry is that year's total,
\* the final total entry is the 2031 total, and the incremental opportunity
\* is the 2031 total minus the 2024 total
C30_WaterfallTelescopes ==
    (WaterfallRan /\ EveryYearPositive(calcInput.records)) =>
        \A fd \in {calcInput.records} : \A chart \in {calcResult.out.chartData} :
            /\ \A k \in 1..8 :
                   chart[k].totalValue = Amount(YearTotal(fd, 2023 + k), 0)
            /\ chart[9].totalValue = Amount(YearTotal(fd, 2031), 0)
            /\ calcResult.out.incrementalOpportunity =
                   Amount(YearTotal(fd, 2031) - YearTotal(fd, 2024), 0)

\* Witness: the waterfall ran on a record set with a positive total in every
\* year, one of them lower than the year before, and a 2031 total other than
\* the 2024 total
C30_Witness ==
    /\ WaterfallRan
    /\ EveryYearPositive(calcInput.records)
    /\ \E year \in 2025..2031 :
           YearTotal(calcInput.records, year) < YearTotal(calcInput.records, year - 1)
    /\ calcResult.out.incrementalOpportunity.units > 0

-----------------------------------------------------------------------------
(* C25: the order of the page's load *)

\* The page's own getData calls in the call history
PageGets == {i \in 1..Len(log) : IsGet(i) /\ log[i].caller = "page"}

\* C25: the page's data is always empty or the complete record set that its
\* getData call returned, and it is empty until that call has returned, so no
\* aggregation reads a partial set; loading is false only after the page's
\* getData has returned or failed; the filters differ from their initial
\* value only after data has been set, and are then the defaults of that data
C25_LoadOrdering ==
    /\ data = <<>>
           \/ /\ Len(data) = NumCombinations
              /\ \E i \in PageGets : log[i].ret = data /\ ~log[i].threw
    /\ pagePc \in {"unmounted", "timer500"} =>
           (data = <<>> /\ loading /\ PageGets = {})
    /\ ~loading => PageGets # {}
    /\ filters # InitialFilters =>
           /\ pagePc = "ready"
           /\ ~loading
           /\ \E i \in PageGets : log[i].ret = data /\ ~log[i].threw
           /\ filters = DefaultFilters(data)

\* Witness: the page has loaded the complete record set and then set its
\* default filters
C25_Witness ==
    /\ pagePc = "ready"
    /\ Len(data) = NumCombinations
    /\ NumCombinations > 1
    /\ ~loading
    /\ filters # InitialFilters
    /\ filters = DefaultFilters(data)

-----------------------------------------------------------------------------
(* HierarchicalFilterDropdown on the product-type hierarchy: the selection  *)
(* after any sequence of clicks.  calcInput holds the `value` prop, which   *)
(* the parent sets to whatever onChange received.                           *)

\* The main categories whose rows are clicked, from the top of the list
NumCategories == 2

ClickMainCategory ==
    /\ calcInput.fn = "HierarchicalFilterDropdown"
    /\ \E i \in 1..NumCategories :
           calcInput' =
               [calcInput EXCEPT !.value =
                   toggleMainCategory(@, getProductTypeHierarchy[i].mainCategory,
                                      getProductTypeHierarchy[i].subCategories)]
    /\ UNCHANGED <<dataCache, seed, genRuns, log, pagePc, data, loading,
                   filters, changes, calcResult, resolver>>

ClickSubCategory ==
    /\ calcInput.fn = "HierarchicalFilterDropdown"
    /\ \E i \in 1..NumCategories :
           \E sub \in Range(getProductTypeHierarchy[i].subCategories) :
               calcInput' =
                   [calcInput EXCEPT !.value =
                       toggleSubCategory(@, getProductTypeHierarchy[i].mainCategory, sub)]
    /\ UNCHANGED <<dataCache, seed, genRuns, log, pagePc, data, loading,
                   filters, changes, calcResult, resolver>>

ClickSelectAll ==
    /\ calcInput.fn = "HierarchicalFilterDropdown"
    /\ calcInput' = [calcInput EXCEPT !.value = selectAll(getProductTypeHierarchy)]
    /\ UNCHANGED <<dataCache, seed, genRuns, log, pagePc, data, loading,
                   filters, changes, calcResult, resolver>>

ClickClearAll ==
    /\ calcInput.fn = "HierarchicalFilterDropdown"
    /\ calcInput' = [calcInput EXCEPT !.value = clearAll]
    /\ UNCHANGED <<dataCache, seed, genRuns, log, pagePc, data, loading,
                   filters, changes, calcResult, resolver>>

\* The dropdown is rendered with the empty selection
InitDropdown ==
    /\ dataCache = NullCache
    /\ seed = 42
    /\ genRuns = 0
    /\ log = <<>>
    /\ pagePc = "unmounted"
    /\ data = <<>>
    /\ loading = TRUE
    /\ filters = InitialFilters
    /\ changes = 0
    /\ calcInput = [fn |-> "HierarchicalFilterDropdown", value |-> {}]
    /\ calcResult = NoCall
    /\ resolver = NoCall

NextDropdown ==
    \/ ClickMainCategory
    \/ ClickSubCategory
    \/ ClickSelectAll
    \/ ClickClearAll

SpecDropdown == InitDropdown /\ [][NextDropdown]_vars

-----------------------------------------------------------------------------
(* C27 *)

\* The 'Parent - Child' values of main category i that are selected
SelectedSubs(value, i) ==
    {FullName(getProductTypeHierarchy[i].mainCategory, sub) :
        sub \in Range(getProductTypeHierarchy[i].subCategories)} \cap value

\* C27: after any sequence of toggleMainCategory, toggleSubCategory, selectAll
\* and clearAll from the empty selection, every main category in the
\* selection has at least one of its 'Parent - Child' subcategories in the
\* selection
C27_ParentNeverAlone ==
    calcInput.fn = "HierarchicalFilterDropdown" =>
        \A i \in 1..Len(getProductTypeHierarchy) :
            getProductTypeHierarchy[i].mainCategory \in calcInput.value
                => SelectedSubs(calcInput.value, i) # {}

\* Witness: one main category is selected with exactly one of its
\* subcategories, and another has lost its parent entry to a deselection while
\* keeping a subcategory
C27_Witness ==
    /\ calcInput.fn = "HierarchicalFilterDropdown"
    /\ \E i, j \in 1..Len(getProductTypeHierarchy) :
           /\ getProductTypeHierarchy[i].mainCategory \in calcInput.value
           /\ Cardinality(SelectedSubs(calcInput.value, i)) = 1
           /\ getProductTypeHierarchy[j].mainCategory \notin calcInput.value
           /\ SelectedSubs(calcInput.value, j) # {}

-----------------------------------------------------------------------------
(* Attractiveness and YoY/CAGR tabs: the filtered record sets.  A tab's    *)
(* filter state is [region, segmentType, segmentValues]; selections are    *)
(* kept as sets (no handler inserts a value twice).                        *)

\* item.value, item.children: a property an object does not have is undefined
\* (<<>>), one it has is <<its value>>
Property(item, name) == IF name \in DOMAIN item THEN <<item[name]>> ELSE <<>>

\* findChildren(items): the values it adds to expandedValues.  An undefined
\* item.value is in no selection, an undefined item.children is falsy.
RECURSIVE findChildren(_, _)
findChildren(items, segmentValues) ==
    UNION {
        LET value == Property(items[k], "value")
            children == Property(items[k], "children")
        IN  IF value # <<>> /\ value[1] \in segmentValues
            THEN IF children # <<>>
                 THEN UNION {
                          Range(Property(children[1][c], "value"))
                              \cup (IF Property(children[1][c], "children") # <<>>
                                    THEN findChildren(children[1][c].children,
                                                      segmentValues)
                                    ELSE {}) :
                          c \in 1..Len(children[1])}
                 ELSE {}
            ELSE IF children # <<>>
                 THEN findChildren(children[1], segmentValues)
                 ELSE {} :
        k \in 1..Len(items)}

\* allSegmentValues of the two filter memos
expandedValues(segmentType, segmentValues) ==
    IF segmentType = "productType"
    THEN segmentValues \cup findChildren(getProductTypeHierarchy, segmentValues)
    ELSE IF segmentType = "distributionChannelType"
    THEN segmentValues \cup findChildren(getSalesChannelHierarchy, segmentValues)
    ELSE segmentValues

\* The filter on the selected segment type and values
PassesSegment(d, f) ==
    (f.segmentType # "" /\ f.segmentValues # {})
        => d[f.segmentType] \in expandedValues(f.segmentType, f.segmentValues)

filteredAttractivenessData(d, f) ==
    SelectSeq(d, LAMBDA r :
        /\ r.year >= 2025 /\ r.year <= 2032
        /\ f.region # {} => r.region \in f.region
        /\ PassesSegment(r, f))

filteredYoyData(d, f) ==
    SelectSeq(d, LAMBDA r :
        /\ f.region # {} => r.region \in f.region
        /\ PassesSegment(r, f))

-----------------------------------------------------------------------------
(* bubbleChartData: getRandomizedOpportunity.  A string is the sequence of  *)
(* its UTF-16 code units; a 32-bit integer is kept as its two 16-bit halves *)
(* [hi, lo] in two's complement, so that no product leaves 32 bits.         *)

\* entityName.charCodeAt(i), i = 0 .. length - 1, of the labels of the model
CodeUnits ==
    "Skin Care" :>
        <<
            83, 107, 105, 110, 32, 67, 97, 114, 101 >> @@
    "Skin Care - Serums" :>
        <<
            83, 107, 105, 110, 32, 67, 97, 114, 101, 32, 45, 32,
            83, 101, 114, 117, 109, 115 >> @@
    "Skin Care - Moisturizers & Creams" :>
        <<
            83, 107, 105, 110, 32, 67, 97, 114, 101, 32, 45, 32,
            77, 111, 105, 115, 116, 117, 114, 105, 122, 101, 114,
            115, 32, 38, 32, 67, 114, 101, 97, 109, 115 >> @@
    "Skin Care - Face Oils (Abhyanga / Ayurvedic oils)" :>
        <<
            83, 107, 105, 110, 32, 67, 97, 114, 101, 32, 45, 32,
            70, 97, 99, 101, 32, 79, 105, 108, 115, 32, 40, 65,
            98, 104, 121, 97, 110, 103, 97, 32, 47, 32, 65, 121,
            117, 114, 118, 101, 100, 105, 99, 32, 111, 105, 108,
            115, 41 >> @@
    "Skin Care - Face Wash & Cleansers" :>
        <<
            83, 107, 105, 110, 32, 67, 97, 114, 101, 32, 45, 32,
            70, 97, 99, 101, 32, 87, 97, 115, 104, 32, 38, 32, 67,
            108, 101, 97, 110, 115, 101, 114, 115 >> @@
    "Skin Care - Toners / Mists" :>
        <<
            83, 107, 105, 110, 32, 67, 97, 114, 101, 32, 45, 32,
            84, 111, 110, 101, 114, 115, 32, 47, 32, 77, 105, 115,
            116, 115 >> @@
    "Skin Care - Sunscreen" :>
        <<
            83, 107, 105, 110, 32, 67, 97, 114, 101, 32, 45, 32,
            83, 117, 110, 115, 99, 114, 101, 101, 110 >> @@
    "Hair Care" :>
        <<
            72, 97, 105, 114, 32, 67, 97, 114, 101 >> @@
    "Hair Care - Oils & Serums" :>
        <<
            72, 97, 105, 114, 32, 67, 97, 114, 101, 32, 45, 32,
            79, 105, 108, 115, 32, 38, 32, 83, 101, 114, 117, 109,
            115 >> @@
    "Hair Care - Shampoos" :>
        <<
            72, 97, 105, 114, 32, 67, 97, 114, 101, 32, 45, 32,
            83, 104, 97, 109, 112, 111, 111, 115 >> @@
    "Hair Care - Conditioners & Hair Masks" :>
        <<
            72, 97, 105, 114, 32, 67, 97, 114, 101, 32, 45, 32,
            67, 111, 110, 100, 105, 116, 105, 111, 110, 101, 114,
            115, 32, 38, 32, 72, 97, 105, 114, 32, 77, 97, 115,
            107, 115 >> @@
    "Hair Care - Hair Growth & Scalp Treatments" :>
        <<
            72, 97, 105, 114, 32, 67, 97, 114, 101, 32, 45, 32,
            72, 97, 105, 114, 32, 71, 114, 111, 119, 116, 104, 32,
            38, 32, 83, 99, 97, 108, 112, 32, 84, 114, 101, 97,
            116, 109, 101, 110, 116, 115 >> @@
    "Body Care" :>
        <<
            66, 111, 100, 121, 32, 67, 97, 114, 101 >> @@
    "Body Care - Body Oils (Ayurvedic Abhyangsnan, Massage Oils)" :>
        <<
            66, 111, 100, 121, 32, 67, 97, 114, 101, 32, 45, 32,
            66, 111, 100, 121, 32, 79, 105, 108, 115, 32, 40, 65,
            121, 117, 114, 118, 101, 100, 105, 99, 32, 65, 98,
            104, 121, 97, 110, 103, 115, 110, 97, 110, 44, 32, 77,
            97, 115, 115, 97, 103, 101, 32, 79, 105, 108, 115, 41 >> @@
    "Body Care - Lotions & Butters" :>
        <<
            66, 111, 100, 121, 32, 67, 97, 114, 101, 32, 45, 32,
            76, 111, 116, 105, 111, 110, 115, 32, 38, 32, 66, 117,
            116, 116, 101, 114, 115 >> @@
    "Body Care - Body Wash / Scrubs" :>
        <<
            66, 111, 100, 121, 32, 67, 97, 114, 101, 32, 45, 32,
            66, 111, 100, 121, 32, 87, 97, 115, 104, 32, 47, 32,
            83, 99, 114, 117, 98, 115 >> @@
    "Cosmetic & Beauty Enhancers" :>
        <<
            67, 111, 115, 109, 101, 116, 105, 99, 32, 38, 32, 66,
            101, 97, 117, 116, 121, 32, 69, 110, 104, 97, 110, 99,
            101, 114, 115 >> @@
    "Cosmetic & Beauty Enhancers - Makeup (base, eyes, lips)" :>
        <<
            67, 111, 115, 109, 101, 116, 105, 99, 32, 38, 32, 66,
            101, 97, 117, 116, 121, 32, 69, 110, 104, 97, 110, 99,
            101, 114, 115, 32, 45, 32, 77, 97, 107, 101, 117, 112,
            32, 40, 98, 97, 115, 101, 44, 32, 101, 121, 101, 115,
            44, 32, 108, 105, 112, 115, 41 >> @@
    "Cosmetic & Beauty Enhancers - Nail & Hand Care" :>
        <<
            67, 111, 115, 109, 101, 116, 105, 99, 32, 38, 32, 66,
            101, 97, 117, 116, 121, 32, 69, 110, 104, 97, 110, 99,
            101, 114, 115, 32, 45, 32, 78, 97, 105, 108, 32, 38,
            32, 72, 97, 110, 100, 32, 67, 97, 114, 101 >> @@
    "Cosmetology Kits" :>
        <<
            67, 111, 115, 109, 101, 116, 111, 108, 111, 103, 121,
            32, 75, 105, 116, 115 >> @@
    "Cosmetology Kits - Facial Kits (Anti-Aging, Hydration, Acne)" :>
        <<
            67, 111, 115, 109, 101, 116, 111, 108, 111, 103, 121,
            32, 75, 105, 116, 115, 32, 45, 32, 70, 97, 99, 105,
            97, 108, 32, 75, 105, 116, 115, 32, 40, 65, 110, 116,
            105, 45, 65, 103, 105, 110, 103, 44, 32, 72, 121, 100,
            114, 97, 116, 105, 111, 110, 44, 32, 65, 99, 110, 101,
            41 >> @@
    "Cosmetology Kits - Hair Treatment Kits" :>
        <<
            67, 111, 115, 109, 101, 116, 111, 108, 111, 103, 121,
            32, 75, 105, 116, 115, 32, 45, 32, 72, 97, 105, 114,
            32, 84, 114, 101, 97, 116, 109, 101, 110, 116, 32, 75,
            105, 116, 115 >> @@
    "Cosmetology Kits - Seasonal Wellness Kits (Festive, Bridal, Ritual-based)" :>
        <<
            67, 111, 115, 109, 101, 116, 111, 108, 111, 103, 121,
            32, 75, 105, 116, 115, 32, 45, 32, 83, 101, 97, 115,
            111, 110, 97, 108, 32, 87, 101, 108, 108, 110, 101,
            115, 115, 32, 75, 105, 116, 115, 32, 40, 70, 101, 115,
            116, 105, 118, 101, 44, 32, 66, 114, 105, 100, 97,
            108, 44, 32, 82, 105, 116, 117, 97, 108, 45, 98, 97,
            115, 101, 100, 41 >> @@
    "Cosmetology Kits - Travel + Daily Routine Kits" :>
        <<
            67, 111, 115, 109, 101, 116, 111, 108, 111, 103, 121,
            32, 75, 105, 116, 115, 32, 45, 32, 84, 114, 97, 118,
            101, 108, 32, 43, 32, 68, 97, 105, 108, 121, 32, 82,
            111, 117, 116, 105, 110, 101, 32, 75, 105, 116, 115 >> @@
    "Creams & Lotions" :>
        <<
            67, 114, 101, 97, 109, 115, 32, 38, 32, 76, 111, 116,
            105, 111, 110, 115 >> @@
    "Gels & Mousse" :>
        <<
            71, 101, 108, 115, 32, 38, 32, 77, 111, 117, 115, 115,
            101 >>

\* hash = ((hash << 5) - hash) + entityName.charCodeAt(i); hash = hash & hash
hashStep(hash, code) ==
    [hi |-> (31 * hash.hi + (31 * hash.lo + code) \div 65536) % 65536,
     lo |-> (31 * hash.lo + code) % 65536]

\* The for loop over the code units lo..hi, entered with `hash`
RECURSIVE hashFrom(_, _, _, _)
hashFrom(hash, entityName, lo, hi) ==
    IF lo > hi THEN hash
    ELSE IF lo = hi THEN hashStep(hash, entityName[lo])
    ELSE TheOnly({hashFrom(left, entityName, (lo + hi) \div 2 + 1, hi) :
                     left \in {hashFrom(hash, entityName, lo, (lo + hi) \div 2)}})

\* let hash = 0; for (let i = 0; i < entityName.length; i++) { ... }
hashOf(entityName) == hashFrom([hi |-> 0, lo |-> 0], entityName, 1, Len(entityName))

\* Math.abs(hash): the magnitude, which is 2^31 for the most negative hash
absOf(hash) ==
    IF hash.hi < 32768 THEN hash
    ELSE IF hash.lo = 0 THEN [hi |-> (65536 - hash.hi) % 65536, lo |-> 0]
    ELSE [hi |-> 65535 - hash.hi, lo |-> 65536 - hash.lo]

\* magnitude % k, for k <= 400
ModOf(magnitude, k) == ((magnitude.hi % k) * (65536 % k) + magnitude.lo) % k

\* Math.max(250, Math.min(650, finalValue))
Unclamped(finalValue) == finalValue
opportunityBand(finalValue) == Max(250, Min(650, finalValue))

\* getRandomizedOpportunity(entityName, isSegment).  variation is
\* 0.9 + (|hash * 11| % 40) / 100, kept in hundredths; Math.round of the
\* product rounds exactly here, which agrees with the IEEE product at every
\* (normalizedHash, variation) pair a hash can produce
getRandomizedOpportunity(entityName, isSegment) ==
    LET magnitude == absOf(hashOf(entityName))
        normalizedHash == ModOf(magnitude, 400)
        baseValue == 250 + normalizedHash
        variation == 90 + ((ModOf(magnitude, 40) * 11) % 40)
        finalValue == Round(baseValue * variation, 100)
    IN  opportunityBand(finalValue)

-----------------------------------------------------------------------------
(* bubbleChartData before the layout, for segmentType '' (regions),        *)
(* 'productType' and the flat segment types.  Indices are exact: a decimal *)
(* is a Ratio over 10, a CAGR index keeps the CAGR it is a tenth of.       *)

Decimal(tenths) == Ratio(tenths, 10)

\* The records pushed to entityDataMap.get(entity), in the order of the pushes
entityRows(fad, f, entity) ==
    IF f.segmentType = "productType"
    THEN IF f.segmentValues = {}
         THEN SelectSeq(fad, LAMBDA d :
                  entity \in Parents /\ d.productType \in ChildrenOf(entity))
         ELSE (IF \E parent \in f.segmentValues \cap Parents :
                      entity \in ChildrenOf(parent)
               THEN SelectSeq(fad, LAMBDA d : d.productType = entity)
               ELSE <<>>)
              \o (IF entity \in f.segmentValues \ Parents
                  THEN SelectSeq(fad, LAMBDA d : d.productType = entity)
                  ELSE <<>>)
    ELSE IF f.segmentType # ""
    THEN IF f.segmentValues = {} \/ entity \in f.segmentValues
         THEN SelectSeq(fad, LAMBDA d : d[f.segmentType] = entity)
         ELSE <<>>
    ELSE IF entity \in indiaRegions
    THEN SelectSeq(fad, LAMBDA d : d.region = entity)
    ELSE <<>>

\* Array.from(entityDataMap.keys()): an entry exists once a record was pushed
entitiesOf(fad, f) ==
    {entity \in Parents \cup indiaRegions
                \cup {fad[i].productType : i \in 1..Len(fad)}
                \cup {fad[i].bladeMaterial : i \in 1..Len(fad)} :
        entityRows(fad, f, entity) # <<>>}

\* Math.min(cagr / 10, 10); cagr >= 100 when endValue / startValue >= 2^7
cagrIndexOf(cagr) ==
    IF cagr # NoGrowth /\ cagr.ratio.num >= 128 * cagr.ratio.den
    THEN Decimal(100)
    ELSE [kind |-> "cagr / 10", cagr |-> cagr]

\* cagrIndex > 0
PositiveCagr(cagr) == cagr # NoGrowth /\ cagr.ratio.num > cagr.ratio.den

\* Math.min(marketShare / 10, 10)
shareIndexOf(marketShare) ==
    IF marketShare.num >= 100 * marketShare.den
    THEN Decimal(100)
    ELSE Ratio(marketShare.num, 10 * marketShare.den)

\* defaultValues, in tenths
defaultValues ==
    [t \in {"South India", "East India", "North India", "West India",
            "Central India"} |->
        CASE t = "South India" -> [cagr |-> 60, share |-> 30, opp |-> 560]
          [] t = "East India" -> [cagr |-> 25, share |-> 12, opp |-> 300]
          [] t = "North India" -> [cagr |-> 50, share |-> 40, opp |-> 490]
          [] t = "West India" -> [cagr |-> 45, share |-> 35, opp |-> 420]
          [] t = "Central India" -> [cagr |-> 35, share |-> 25, opp |-> 380]]

\* defaultValues[entity] || { cagr: 5.0, share: 5.0, opp: getRandomizedOpportunity(...) }
defaultsOf(entity, segmentType) ==
    IF entity \in DOMAIN defaultValues THEN defaultValues[entity]
    ELSE [cagr |-> 50, share |-> 50,
          opp |-> getRandomizedOpportunity(CodeUnits[entity], segmentType # "")]

\* finalCagrIndex and finalMarketShareIndex, with the overrides
finalIndices(entity, segmentType, cagr, marketShare) ==
    IF segmentType = "" /\ entity = "South India"
    THEN [cagrIndex |-> Decimal(60), marketShareIndex |-> Decimal(30)]
    ELSE IF segmentType = "" /\ entity = "East India"
    THEN [cagrIndex |-> Decimal(25), marketShareIndex |-> Decimal(12)]
    ELSE IF segmentType = "distributionChannelType" /\ entity = "Offline Retail"
    THEN [cagrIndex |-> Decimal(70), marketShareIndex |-> Decimal(90)]
    ELSE [cagrIndex |->
              IF PositiveCagr(cagr) THEN cagrIndexOf(cagr)
              ELSE IF segmentType # "" THEN Decimal(50)
              ELSE Decimal(defaultsOf(entity, segmentType).cagr),
          marketShareIndex |->
              IF marketShare.num > 0 THEN shareIndexOf(marketShare)
              ELSE IF segmentType # "" THEN Decimal(50)
              ELSE Decimal(defaultsOf(entity, segmentType).share)]

\* finalIncrementalOpportunity, in millions: the computed difference (of two
\* values in thousandths) or a substitute
finalIncrementalOpportunity(entity, segmentType, incrementalOpportunity) ==
    IF incrementalOpportunity > 0 THEN Ratio(incrementalOpportunity, 1000)
    ELSE IF segmentType # ""
    THEN Ratio(getRandomizedOpportunity(CodeUnits[entity], TRUE), 1)
    ELSE Ratio(defaultsOf(entity, segmentType).opp, 1)

\* entities.map(entity => ...): one entry of bubbleData, with the locals it
\* was computed from
bubbleEntry(fad, f, entity) ==
    LET rows == entityRows(fad, f, entity)
        values == [i \in 1..Len(rows) |-> rows[i].marketValueUsd]
        yearList == [i \in 1..Len(rows) |-> rows[i].year]
    IN  TheOnly({
            [region |-> entity,
             cagrIndex |-> final.cagrIndex,
             marketShareIndex |-> final.marketShareIndex,
             incrementalOpportunity |->
                 finalIncrementalOpportunity(entity, f.segmentType,
                                             endValue - startValue),
             locals |-> [startValue |-> startValue, endValue |-> endValue,
                         cagr |-> cagr, marketShare |-> marketShare,
                         incrementalOpportunity |-> endValue - startValue]] :
                startValue \in {FirstValueOf(values, yearList, 2025)},
                endValue \in {FirstValueOf(values, yearList, 2032)},
                cagr \in {bubbleCagr(FirstValueOf(values, yearList, 2025),
                                     FirstValueOf(values, yearList, 2032))},
                marketShare \in
                    {percentage(SumRange(values, 1, Len(values)),
                                SumRange([i \in 1..Len(fad) |-> fad[i].marketValueUsd],
                                         1, Len(fad)))},
                final \in
                    {finalIndices(entity, f.segmentType,
                         bubbleCagr(FirstValueOf(values, yearList, 2025),
                                    FirstValueOf(values, yearList, 2032)),
                         percentage(SumRange(values, 1, Len(values)),
                                    SumRange([i \in 1..Len(fad) |-> fad[i].marketValueUsd],
                                             1, Len(fad))))}})

\* bubbleData, by entity (its array order is the Map's insertion order)
bubbleData(fad, f) ==
    [entity \in entitiesOf(fad, f) |-> bubbleEntry(fad, f, entity)]

-----------------------------------------------------------------------------
(* yoyCagrDataByEntity with a segment type selected: the series keys and   *)
(* the records of each series.  The string tests are those of the source,  *)
(* evaluated on the names of the product-type catalog.                     *)

\* parentToChildrenMap.get(parent): the subCategories as the hierarchy lists them
subCategoriesOf(parent) ==
    Range((CHOOSE item \in Range(getProductTypeHierarchy) :
               item.mainCategory = parent).subCategories)

\* fieldValue.split(' - ') has more than one part: <<the last part>>
LastPartOf(fieldValue) ==
    IF \E p \in Parents : fieldValue \in ChildrenOf(p)
    THEN <<CHOOSE sub \in subCategoriesOf(MainCategoryOf(fieldValue)) :
               FullName(MainCategoryOf(fieldValue), sub) = fieldValue>>
    ELSE <<>>

\* s.includes(t) for two names without ' - '
BareIncludes(s, t) == s = t \/ (s = "Oils & Serums" /\ t = "Serums")

\* s.includes(t) for a value s of the data and a name t without ' - '
Includes(s, t) ==
    \/ BareIncludes(s, t)
    \/ /\ LastPartOf(s) # <<>>
       /\ t = MainCategoryOf(s) \/ BareIncludes(LastPartOf(s)[1], t)

\* allSegmentValues
yoySegmentValues(fyd, f) ==
    IF f.segmentType = "productType"
    THEN IF f.segmentValues = {} THEN Parents
         ELSE IF f.segmentValues \cap Parents # {}
         THEN UNION {subCategoriesOf(parent) : parent \in f.segmentValues \cap Parents}
                  \cup (f.segmentValues \ Parents)
         ELSE f.segmentValues
    ELSE IF f.segmentValues = {}
    THEN {fyd[i][f.segmentType] : i \in 1..Len(fyd)}
    ELSE f.segmentValues

\* The filter that builds segmentFilteredData for one series key
InSeries(fieldValue, f, segmentValue) ==
    IF f.segmentType = "productType" /\ segmentValue \in Parents
    THEN \/ fieldValue = segmentValue
         \/ IF fieldValue \in ChildrenOf(segmentValue)
            THEN \E child \in subCategoriesOf(segmentValue) :
                     \/ LastPartOf(fieldValue)[1] = child
                     \/ BareIncludes(LastPartOf(fieldValue)[1], child)
                     \/ BareIncludes(child, LastPartOf(fieldValue)[1])
            ELSE \E child \in subCategoriesOf(segmentValue) :
                     fieldValue = child \/ Includes(fieldValue, child)
    ELSE \/ fieldValue = segmentValue
         \/ LastPartOf(fieldValue) # <<>> /\ LastPartOf(fieldValue)[1] = segmentValue

segmentFilteredData(fyd, f, segmentValue) ==
    SelectSeq(fyd, LAMBDA d : InSeries(d[f.segmentType], f, segmentValue))

\* The test that adds d.year to yearSet
InYearSet(fieldValue, f, segmentValue) ==
    IF f.segmentType = "productType" /\ segmentValue \in Parents
    THEN \/ fieldValue = segmentValue
         \/ /\ fieldValue \in ChildrenOf(segmentValue)
            /\ LastPartOf(fieldValue)[1] \in subCategoriesOf(segmentValue)
         \/ fieldValue \in subCategoriesOf(segmentValue)
    ELSE \/ fieldValue = segmentValue
         \/ LastPartOf(fieldValue) # <<>> /\ LastPartOf(fieldValue)[1] = segmentValue

\* The chart of the segment-grouped tab: no chart without a key or with fewer
\* than two years; otherwise the keys, and for each key the records its line
\* is computed from
yoySegmentChart(fyd, f) ==
    LET allSegmentValues == yoySegmentValues(fyd, f)
        yearSet == {fyd[i].year : i \in
                       {k \in 1..Len(fyd) :
                           \E segmentValue \in allSegmentValues :
                               InYearSet(fyd[k][f.segmentType], f, segmentValue)}}
    IN  IF allSegmentValues = {} \/ Cardinality(yearSet) < 2 THEN <<>>
        ELSE <<[segmentKeys |-> allSegmentValues,
                series |-> [segmentValue \in allSegmentValues |->
                               segmentFilteredData(fyd, f, segmentValue)]]>>

-----------------------------------------------------------------------------
(* The two tabs as a state machine.  calcInput holds a tab's records and   *)
(* its filter state, calcResult what its memos derive from them; React     *)
(* re-runs the memos in the render that follows every setState, so every   *)
(* click's action ends with them.  The flat segment type is bladeMaterial; *)
(* distributionChannelType groups like productType and is left out.        *)

\* Clicks in one tab
MaxClicks == 2

\* Length of the labels getRandomizedOpportunity is applied to directly
MaxLabelLength == 5

Sale(year, region, productType, bladeMaterial, marketValueUsd) ==
    [year |-> year, region |-> region, productType |-> productType,
     bladeMaterial |-> bladeMaterial, marketValueUsd |-> marketValueUsd]

\* Record sets of the tabs, values in thousandths of a million
TabData ==
    {<<>>,
     <<Sale(2025, "North India", "Skin Care - Serums", "Creams & Lotions", 1000),
       Sale(2032, "North India", "Skin Care - Serums", "Creams & Lotions", 3000),
       Sale(2025, "South India", "Skin Care - Sunscreen", "Gels & Mousse", 2000),
       Sale(2032, "South India", "Skin Care - Sunscreen", "Gels & Mousse", 4000),
       Sale(2025, "North India", "Skin Care", "Creams & Lotions", 4000),
       Sale(2032, "North India", "Hair Care - Oils & Serums", "Gels & Mousse", 1000),
       Sale(2024, "North India", "Skin Care - Serums", "Creams & Lotions", 5000)>>,
     <<Sale(2025, "East India", "Body Care - Lotions & Butters", "Creams & Lotions", 3000),
       Sale(2032, "East India", "Body Care - Lotions & Butters", "Creams & Lotions", 1000),
       Sale(2025, "West India", "Hair Care - Shampoos", "Gels & Mousse", 0),
       Sale(2032, "West India", "Hair Care - Shampoos", "Gels & Mousse", 2000)>>}

\* Labels as code-unit sequences: NUL, 'a' and U+FFFF
LabelInputs ==
    {[fn |-> "getRandomizedOpportunity", entityName |-> entityName,
      isSegment |-> isSegment] :
        entityName \in UNION {[1..n -> {0, 97, 65535}] : n \in 0..MaxLabelLength},
        isSegment \in BOOLEAN}

\* What bubbleChartData returns, up to the layout (which moves the two
\* indices only): each entity's incrementalOpportunity
returnedOpportunity(fad, f) ==
    IF entitiesOf(fad, f) = {} /\ f.segmentType = ""
    THEN [entity \in {defaultData[i].region : i \in 1..Len(defaultData)} |->
             Ratio((CHOOSE e \in Range(defaultData) : e.region = entity)
                       .incrementalOpportunity, 1)]
    ELSE [entity \in entitiesOf(fad, f) |->
             bubbleEntry(fad, f, entity).incrementalOpportunity]

\* yoyCagrDataByEntity without a segment type: the labels of its charts, one
\* per selected region
yoyRegionCharts(fyd, f) ==
    {region \in f.region : \E i \in 1..Len(fyd) : fyd[i].region = region}

\* The memos of a tab on its records and filter state
tabMemos(input) ==
    IF input.fn = "attractiveness"
    THEN TheOnly({[fn |-> "attractiveness",
                   filtered |-> fad,
                   bubbleData |-> bubbleData(fad, input),
                   returned |-> returnedOpportunity(fad, input)] :
                     fad \in {filteredAttractivenessData(input.records, input)}})
    ELSE TheOnly({[fn |-> "yoy",
                   filtered |-> fyd,
                   charts |-> IF input.segmentType # ""
                              THEN yoySegmentChart(fyd, input)
                              ELSE <<>>,
                   regionCharts |-> IF input.segmentType # "" THEN {}
                                    ELSE yoyRegionCharts(fyd, input)] :
                     fyd \in {filteredYoyData(input.records, input)}})

\* A tab after the page's load: every region of the data is selected, no
\* segment type is
TabInputs ==
    {[fn |-> fn, records |-> d,
      region |-> {d[i].region : i \in 1..Len(d)},
      segmentType |-> "", segmentValues |-> {}] :
        fn \in {"attractiveness", "yoy"}, d \in TabData}

InitTabs ==
    /\ dataCache = NullCache
    /\ seed = 42
    /\ genRuns = 0
    /\ log = <<>>
    /\ pagePc = "unmounted"
    /\ data = <<>>
    /\ loading = TRUE
    /\ filters = InitialFilters
    /\ changes = 0
    /\ calcInput \in TabInputs \cup LabelInputs
    /\ calcResult = IF calcInput \in TabInputs THEN tabMemos(calcInput) ELSE NoCall
    /\ resolver = NoCall

\* 'By Segment': the single-select sets the segment type and clears the values
ChangeSegmentType ==
    /\ calcInput.fn \in {"attractiveness", "yoy"}
    /\ changes < MaxClicks
    /\ \E segmentType \in {"productType", "bladeMaterial"} \ {calcInput.segmentType} :
           /\ calcInput' = [calcInput EXCEPT !.segmentType = segmentType,
                                             !.segmentValues = {}]
           /\ calcResult' = tabMemos(calcInput')
    /\ changes' = changes + 1
    /\ UNCHANGED <<dataCache, seed, genRuns, log, pagePc, data, loading,
                   filters, resolver>>

\* One click in the HierarchicalFilterDropdown shown for productType
ChangeProductTypeValues ==
    /\ calcInput.fn \in {"attractiveness", "yoy"}
    /\ calcInput.segmentType = "productType"
    /\ changes < MaxClicks
    /\ \E value \in
           {clearAll, selectAll(getProductTypeHierarchy)}
               \cup {toggleMainCategory(calcInput.segmentValues,
                                        getProductTypeHierarchy[i].mainCategory,
                                        getProductTypeHierarchy[i].subCategories) :
                        i \in 1..NumCategories}
               \cup UNION {{toggleSubCategory(calcInput.segmentValues,
                                getProductTypeHierarchy[i].mainCategory, sub) :
                               sub \in Range(getProductTypeHierarchy[i].subCategories)} :
                           i \in 1..NumCategories} :
           /\ calcInput' = [calcInput EXCEPT !.segmentValues = value]
           /\ calcResult' = tabMemos(calcInput')
    /\ changes' = changes + 1
    /\ UNCHANGED <<dataCache, seed, genRuns, log, pagePc, data, loading,
                   filters, resolver>>

\* One click in the FilterDropdown shown for bladeMaterial, which lists the
\* values found in the data
ChangeFlatValues ==
    /\ calcInput.fn \in {"attractiveness", "yoy"}
    /\ calcInput.segmentType = "bladeMaterial"
    /\ changes < MaxClicks
    /\ \E value \in FilterDropdownEmits(calcInput.segmentValues,
                        KeysFrom([i \in 1..Len(calcInput.records) |->
                                     calcInput.records[i].bladeMaterial], 1)) :
           /\ calcInput' = [calcInput EXCEPT !.segmentValues = value]
           /\ calcResult' = tabMemos(calcInput')
    /\ changes' = changes + 1
    /\ UNCHANGED <<dataCache, seed, genRuns, log, pagePc, data, loading,
                   filters, resolver>>

\* getRandomizedOpportunity applied to a label
ComputeRandomizedOpportunity ==
    /\ calcInput.fn = "getRandomizedOpportunity"
    /\ calcResult = NoCall
    /\ calcResult' = [fn |-> "getRandomizedOpportunity",
                      value |-> getRandomizedOpportunity(calcInput.entityName,
                                                         calcInput.isSegment)]
    /\ UNCHANGED <<dataCache, seed, genRuns, log, pagePc, data, loading,
                   filters, changes, calcInput, resolver>>

NextTabs ==
    \/ ChangeSegmentType
    \/ ChangeProductTypeValues
    \/ ChangeFlatValues
    \/ ComputeRandomizedOpportunity

SpecTabs == InitTabs /\ [][NextTabs]_vars

-----------------------------------------------------------------------------
(* C24 *)

\* A record passes the tab's year and region filters
PassesYearAndRegion(d, input) ==
    /\ input.fn = "attractiveness" => d.year >= 2025 /\ d.year <= 2032
    /\ input.region # {} => d.region \in input.region

\* C24: with product-type values selected in a tab, the filtered record set
\* contains every record (passing the year and region filters) whose product
\* type is a selected value or a child of a selected main category, also when
\* that child is not itself selected
C24_ParentSelectsDescendants ==
    (calcInput.fn \in {"attractiveness", "yoy"}
         /\ calcInput.segmentType = "productType") =>
        \A i \in 1..Len(calcInput.records) :
            (/\ PassesYearAndRegion(calcInput.records[i], calcInput)
             /\ \/ calcInput.records[i].productType \in calcInput.segmentValues
                \/ \E parent \in calcInput.segmentValues \cap Parents :
                       calcInput.records[i].productType \in ChildrenOf(parent))
                => calcInput.records[i] \in Range(calcResult.filtered)

-----------------------------------------------------------------------------
(* C21 *)

\* The total of the filtered records that were pushed to the entity, each
\* record counted once
OnceTotal(fad, f, entity) ==
    SumRange([i \in 1..Len(fad) |->
                 IF fad[i] \in Range(entityRows(fad, f, entity))
                 THEN fad[i].marketValueUsd ELSE 0], 1, Len(fad))

\* The total of the values pushed to the entities of S
RECURSIVE PushedTotal(_, _, _)
PushedTotal(fad, f, S) ==
    IF S = {} THEN 0
    ELSE LET entity == CHOOSE e \in S : TRUE
             rows == entityRows(fad, f, entity)
         IN  SumRange([i \in 1..Len(rows) |-> rows[i].marketValueUsd], 1, Len(rows))
                 + PushedTotal(fad, f, S \ {entity})

\* C21: in the attractiveness tab every entity's market share is the total
\* of its filtered records, each counted once, over the grand total of the
\* filtered records; the shares of all entities sum to at most 100% and
\* every marketShareIndex before the layout is at most 10
C21_SharesCountRecordsOnce ==
    calcInput.fn = "attractiveness" =>
        LET fad == calcResult.filtered
            grandTotal == SumRange([i \in 1..Len(fad) |-> fad[i].marketValueUsd],
                                   1, Len(fad))
        IN  /\ \A entity \in DOMAIN calcResult.bubbleData :
                   /\ calcResult.bubbleData[entity].locals.marketShare
                          = percentage(OnceTotal(fad, calcInput, entity), grandTotal)
                   /\ calcResult.bubbleData[entity].marketShareIndex.num
                          <= 10 * calcResult.bubbleData[entity].marketShareIndex.den
            /\ PushedTotal(fad, calcInput, DOMAIN calcResult.bubbleData) <= grandTotal

-----------------------------------------------------------------------------
(* C22 *)

\* C22: before the layout, an entity's cagrIndex is its computed index when
\* that is positive and the default otherwise, and likewise its
\* marketShareIndex; the default is the region's fixed default when grouping
\* by region and 5.0 when grouping by a segment
C22_DefaultOnlyWhenNonPositive ==
    calcInput.fn = "attractiveness" =>
        \A entity \in DOMAIN calcResult.bubbleData :
            LET entry == calcResult.bubbleData[entity]
                fallback == IF calcInput.segmentType # ""
                            THEN [cagr |-> 50, share |-> 50]
                            ELSE defaultValues[entity]
            IN  /\ entry.cagrIndex =
                       IF PositiveCagr(entry.locals.cagr)
                       THEN cagrIndexOf(entry.locals.cagr)
                       ELSE Decimal(fallback.cagr)
                /\ entry.marketShareIndex =
                       IF entry.locals.marketShare.num > 0
                       THEN shareIndexOf(entry.locals.marketShare)
                       ELSE Decimal(fallback.share)

-----------------------------------------------------------------------------
(* C29 *)

\* C29: in the segment-grouped YoY/CAGR chart with a main category selected,
\* the series keys contain the category's children and not the category, and
\* no filtered record is in the series of two different keys
C29_SeriesPartitionRecords ==
    (/\ calcInput.fn = "yoy"
     /\ calcInput.segmentType = "productType"
     /\ calcInput.segmentValues \cap Parents # {}
     /\ calcResult.charts # <<>>) =>
        LET chart == calcResult.charts[1]
        IN  /\ \A parent \in calcInput.segmentValues \cap Parents :
                   /\ parent \notin chart.segmentKeys
                   /\ subCategoriesOf(parent) \subseteq chart.segmentKeys
            /\ \A k1, k2 \in chart.segmentKeys :
                   k1 # k2 => Range(chart.series[k1]) \cap Range(chart.series[k2]) = {}

-----------------------------------------------------------------------------
(* C23 *)

\* C23: getRandomizedOpportunity returns an integer in [250, 650] that is the
\* same for both values of isSegment, and every entity the attractiveness
\* calculator returns has a positive incrementalOpportunity
C23_SubstituteInBand ==
    /\ calcResult.fn = "getRandomizedOpportunity" =>
           /\ calcResult.value \in 250..650
           /\ calcResult.value
                  = getRandomizedOpportunity(calcInput.entityName, ~calcInput.isSegment)
    /\ calcInput.fn = "attractiveness" =>
           /\ \A entity \in DOMAIN calcResult.returned :
                  /\ calcResult.returned[entity].num > 0
                  /\ calcResult.returned[entity].den > 0
           /\ \A entity \in DOMAIN calcResult.bubbleData :
                  (calcInput.segmentType # ""
                       /\ calcResult.bubbleData[entity].locals.incrementalOpportunity <= 0)
                      => /\ calcResult.returned[entity].den = 1
                         /\ calcResult.returned[entity].num \in 250..650

\* Witness: grouped by product type, an entity whose 2032 value is below its
\* 2025 value is returned with the substitute of its label
C23_Witness ==
    /\ calcInput.fn = "attractiveness"
    /\ calcInput.segmentType = "productType"
    /\ \E entity \in DOMAIN calcResult.bubbleData :
           /\ calcResult.bubbleData[entity].locals.incrementalOpportunity < 0
           /\ calcResult.returned[entity]
                  = Ratio(getRandomizedOpportunity(CodeUnits[entity], TRUE), 1)

====
